---- MODULE Spec2Model ----
(***************************************************************************)
(* Model of the multi-credential scheduler (src/auth/token_manager.js),    *)
(* the upstream client with its retry loop (src/api/client.js), the        *)
(* admission queue (src/middleware/concurrency.js) and the two ingress     *)
(* routes that draw credentials (server: /v1/models, /v1/chat/completions).*)
(*                                                                         *)
(* Execution model: node.js runs one callback at a time.  An action below  *)
(* is one callback run to completion: the synchronous code up to the next  *)
(* network await, followed by the promise jobs it leaves behind.  The file *)
(* operations are synchronous (fs.readFileSync / fs.writeFileSync) and the *)
(* write lock is a chain of promise jobs, so a save or a disable started   *)
(* in a callback completes before the next network event is delivered.     *)
(* Times are milliseconds.                                                 *)
(***************************************************************************)
EXTENDS Integers, Sequences, FiniteSets, TLC

VARIABLES
    now,             \* Date.now()
    file,            \* data/accounts.json: one record per credential, in file order
    tokens,          \* TokenManager.tokens: sequence of in-memory token objects
    heap,            \* the token objects that are still referenced, by identity
    gen,             \* number of loadTokens() calls so far (object identities)
    nextAccess,      \* the next access_token the OAuth endpoint will issue
    activeRequests,  \* TokenManager.activeRequests
    stats,           \* TokenManager.stats
    req,             \* the requests: position of each handler and its locals
    pending,         \* PQueue.pending: number of jobs that are running
    waiting,         \* PQueue's queue of jobs not started yet (PQueue.size is its length)
    cfg,             \* config.concurrency.{maxConcurrent, queueLimit, perTokenConcurrency}
    disableCalls,    \* <<credential, caller>> of every disableToken() call (history)
    lastRetryAfter,  \* per credential: when the retry-after of its latest 429 ends, and
                     \* whether another outcome was recorded on it before that (history)
    io,              \* the write lock of the credential file: the operations chained on
                     \* this.fileLock, the one that is running, and what callers hold
    sse              \* one upstream body being read: the network chunks, the buffers
                     \* of the read loop and the events emitted so far

vars == <<now, file, tokens, heap, gen, nextAccess, activeRequests, stats, req,
          pending, waiting, cfg, disableCalls, lastRetryAfter, io, sse>>

(***************************************************************************)
(* Bounds of the model and constants of the program.                       *)
(***************************************************************************)
NumCreds == 2
NumReqs == 2
NumQueueReqs == 3
NumStoreReqs == 3
NumBacklogReqs == 4
NumResponseReqs == 2
StartNow == 1000
TickMs == 2000
MaxNow == 3000
MaxGen == 3
MaxRefresh == 1
ProjectIdBase == 10
MaxHeld == 1
MaxChain == 2
NumRemarks == 1
MaxCuts == 2
MaxParts == 3
LongRun == 8
RetryAfterMs == 3000
ExpiresIn == 3600
ShortExpiresIn == 302
MaxRecorded == 3
MaxCalls == 2
maxRetries == 1

DefaultPerToken == 2
DefaultMaxConcurrent == 10
DefaultQueueLimit == 50
FixedCooldownMs == 2000
KeepNormal == 6
KeepThinking == 7
ExpirySkewMs == 300000

Creds == 1..NumCreds
\* The requests that arrive under each specification, and all of them.
SchedReqs == 1..NumReqs
QueueReqs == 1..NumQueueReqs
StoreReqs == 1..NumStoreReqs
BacklogReqs == 1..NumBacklogReqs
ResponseReqs == 1..NumResponseReqs
Reqs == SchedReqs \cup QueueReqs \cup StoreReqs \cup BacklogReqs \cup ResponseReqs

\* Configurations are <<maxConcurrent, queueLimit, perTokenConcurrency>>.
\* The defaults of config.js, and the same with one request per credential.
DefaultConfigs ==
    {<<DefaultMaxConcurrent, DefaultQueueLimit, DefaultPerToken>>,
     <<DefaultMaxConcurrent, DefaultQueueLimit, 1>>}

\* Small admission queues: one in which the limiter rejects and one in which
\* requests wait.
QueueConfigs == {<<1, 1, DefaultPerToken>>, <<1, 2, DefaultPerToken>>}

NoTok == <<0, 0>>

\* No upstream body is being read.
NoBody == [pc |-> "none"]
Rt(o) == o[1]

(***************************************************************************)
(* TokenManager: statistics.                                               *)
(***************************************************************************)
\* initStats: the entry a credential gets on first reference.  An absent entry
\* and this entry read the same everywhere (stats?.cooldownUntil is falsy).
initStats ==
    [totalRequests |-> 0, successCount |-> 0, failureCount |-> 0,
     refreshCount |-> 0, status |-> "idle", cooldownUntil |-> 0,
     consecutive429Count |-> 0]

\* recordSuccess(token) at time t.
recordSuccess(st, c, t) ==
    [st EXCEPT ![c] = [@ EXCEPT !.totalRequests = @ + 1,
                                !.successCount = @ + 1,
                                !.status = "active",
                                !.cooldownUntil = 0,
                                !.consecutive429Count = 0]]

\* A cooldown that is the fixed delay whatever the answer says.
CooldownIgnoringRetryAfter(t, retryAfter) == t + FixedCooldownMs

\* The cooldown a 429 sets: error.retryAfter (ms) when it is a non-zero number,
\* else the fixed delay.
CooldownAfter429(t, retryAfter) ==
    IF retryAfter # 0 THEN t + retryAfter ELSE t + FixedCooldownMs

\* recordFailure whose 429 branch leaves totalRequests alone.
recordFailureUncounted429(st, c, statusCode, retryAfter, t) ==
    [st EXCEPT ![c] =
        IF statusCode = 429
        THEN [@ EXCEPT !.failureCount = @ + 1,
                       !.status = "rate_limited",
                       !.consecutive429Count = @ + 1,
                       !.cooldownUntil = CooldownAfter429(t, retryAfter)]
        ELSE [@ EXCEPT !.totalRequests = @ + 1,
                       !.failureCount = @ + 1,
                       !.status = IF statusCode \in {401, 403} THEN "disabled" ELSE @,
                       !.cooldownUntil = 0,
                       !.consecutive429Count = 0]]

\* recordFailure(token, error) at time t; statusCode 0 stands for "no status
\* code" (network and stream errors), retryAfter 0 for "none".
recordFailure(st, c, statusCode, retryAfter, t) ==
    [st EXCEPT ![c] =
        IF statusCode = 429
        THEN [@ EXCEPT !.totalRequests = @ + 1,
                       !.failureCount = @ + 1,
                       !.status = "rate_limited",
                       !.consecutive429Count = @ + 1,
                       !.cooldownUntil = CooldownAfter429(t, retryAfter)]
        ELSE IF statusCode \in {401, 403}
        THEN [@ EXCEPT !.totalRequests = @ + 1,
                       !.failureCount = @ + 1,
                       !.status = "disabled",
                       !.cooldownUntil = 0,
                       !.consecutive429Count = 0]
        ELSE [@ EXCEPT !.totalRequests = @ + 1,
                       !.failureCount = @ + 1,
                       !.cooldownUntil = 0,
                       !.consecutive429Count = 0]]

\* recordRefresh(token).
recordRefresh(st, c) == [st EXCEPT ![c].refreshCount = @ + 1]

(***************************************************************************)
(* TokenManager: active counts.                                            *)
(***************************************************************************)
incrementActive(act, c) == [act EXCEPT ![c] = @ + 1]

\* A release that decrements whatever the count is.
releaseUnguarded(act, c) == [act EXCEPT ![c] = @ - 1]

\* A release that leaves the count as it is.
releaseSkipped(act, c) == act

\* releaseToken.
releaseToken(act, c) == [act EXCEPT ![c] = IF @ > 0 THEN @ - 1 ELSE @]

\* A catch block that leaves the count as it is.
noRollback(act, c) == act

\* The rollback in getToken's catch block.
rollback(act, c) == [act EXCEPT ![c] = IF @ > 0 THEN @ - 1 ELSE @]

(***************************************************************************)
(* TokenManager: expiry and selection.                                     *)
(***************************************************************************)
\* A test that takes every access token for valid.
neverExpired(o, t) == FALSE

\* isExpired(token) at time t; a missing timestamp or expires_in is 0.
isExpired(o, t) ==
    \/ o.timestamp = 0
    \/ o.expires_in = 0
    \/ t >= o.timestamp + o.expires_in * 1000 - ExpirySkewMs

\* The cooling test of the selection loop.
IsCooling(st, c, t) == st[c].cooldownUntil # 0 /\ st[c].cooldownUntil > t

\* The overload test of the selection loop.
IsOverloaded(act, c) == act[c] >= cfg.perTokenConcurrency

\* Positions of this.tokens the loop does not skip as already tried.
Untried(tk, tried) == {k \in 1..Len(tk) : Rt(tk[k]) \notin tried}

\* The loop without its "active >= perTokenConcurrency" skip.
CandidatesIgnoringCap(tk, tried, act, st, t) ==
    {k \in Untried(tk, tried) : ~IsCooling(st, Rt(tk[k]), t)}

\* The loop without its cooldown skip.
CandidatesIgnoringCooldown(tk, tried, act, st, t) ==
    {k \in Untried(tk, tried) : ~IsOverloaded(act, Rt(tk[k]))}

\* Positions that reach the comparison with minActive.
Candidates(tk, tried, act, st, t) ==
    {k \in Untried(tk, tried) :
        /\ ~IsCooling(st, Rt(tk[k]), t)
        /\ ~IsOverloaded(act, Rt(tk[k]))}

\* A comparison that lets a later position with the same count win.
NotAboveMinActive(tk, act, k, selected) ==
    selected = 0 \/ act[Rt(tk[k])] <= act[Rt(tk[selected])]

\* "active < minActive": minActive is Infinity while nothing is selected,
\* the count of the selected position afterwards.
BelowMinActive(tk, act, k, selected) ==
    selected = 0 \/ act[Rt(tk[k])] < act[Rt(tk[selected])]

\* The for loop from position k on, `selected` being the position it has in
\* selectedToken (0 for null).
RECURSIVE SelectFrom(_, _, _, _, _, _, _)
SelectFrom(k, selected, tk, tried, act, st, t) ==
    IF k > Len(tk) THEN selected
    ELSE SelectFrom(k + 1,
                    IF k \in Candidates(tk, tried, act, st, t) /\ BelowMinActive(tk, act, k, selected)
                    THEN k ELSE selected,
                    tk, tried, act, st, t)

\* The position the loop leaves in selectedToken, 0 when it selected nothing.
SelectedIndex(tk, tried, act, st, t) == SelectFrom(1, 0, tk, tried, act, st, t)

Min(S) == CHOOSE x \in S : \A y \in S : x <= y

\* The longest remaining cooldown in place of the shortest.
maxCooldownRemaining(S) == CHOOSE x \in S : \A y \in S : x >= y

\* minCooldownRemaining after the loop: Math.min over the cooling positions.
minCooldownRemaining(S) == Min(S)

\* Math.ceil(ms / 1000)
CeilSeconds(ms) == (ms + 999) \div 1000

\* A test that forgets the cooling credentials.
allOverloaded(overloadedCount, coolingDownCount, untriedCount) ==
    overloadedCount = untriedCount /\ untriedCount > 0

\* "overloadedCount + coolingDownCount === untriedCount && untriedCount > 0"
allOverloadedOrCooling(overloadedCount, coolingDownCount, untriedCount) ==
    overloadedCount + coolingDownCount = untriedCount /\ untriedCount > 0

\* The error getToken throws when the loop selected nothing.
SelectError(tk, tried, act, st, t) ==
    LET untried == Untried(tk, tried)
        cooling == {k \in untried : IsCooling(st, Rt(tk[k]), t)}
        overloaded == {k \in untried \ cooling : IsOverloaded(act, Rt(tk[k]))}
    IN  IF untried = {}
        THEN [statusCode |-> 503, retryAfter |-> 0, why |-> "all_tried"]
        ELSE IF Cardinality(cooling) = Cardinality(untried)
        THEN [statusCode |-> 429,
              retryAfter |-> CeilSeconds(minCooldownRemaining(
                                {st[Rt(tk[k])].cooldownUntil - t : k \in cooling})),
              why |-> "all_cooling"]
        ELSE IF allOverloadedOrCooling(Cardinality(overloaded), Cardinality(cooling),
                                       Cardinality(untried))
        THEN [statusCode |-> 503, retryAfter |-> 0, why |-> "concurrency_cap"]
        ELSE [statusCode |-> 503, retryAfter |-> 0, why |-> "unavailable"]

(***************************************************************************)
(* TokenManager: the credential file and the in-memory list.               *)
(* A store is the record [file, tokens, heap, gen].                        *)
(***************************************************************************)
\* The position of credential c in this.tokens, 0 when it is not there.
IndexOf(tk, c) ==
    IF \E k \in 1..Len(tk) : Rt(tk[k]) = c
    THEN CHOOSE k \in 1..Len(tk) : Rt(tk[k]) = c
    ELSE 0

\* A record written as it is in memory.
PersistedWithSession(o) == o

\* const { sessionId, ...tokenToSave } = memToken: the copy saveToFile writes.
\* A field that is absent reads 0.
Persisted(o) == [o EXCEPT !.sessionId = 0]

\* The operation saveToFile hands to writeFileWithLock, applied to the array
\* allTokens read from the file: every object of this.tokens overwrites the
\* record with the same refresh_token; the other records are kept.
saveOver(allTokens, S) ==
    [c \in Creds |->
        IF IndexOf(S.tokens, c) # 0 THEN Persisted(S.heap[S.tokens[IndexOf(S.tokens, c)]])
        ELSE allTokens[c]]

\* A file that is taken to be there and well-formed whatever its state.
AlwaysReadable(S) == TRUE

\* fs.readFileSync and JSON.parse do not throw: the file is there and is
\* well-formed JSON.
Readable(S) == S.ok

\* saveToFile run to its end with no other writer: read, overlay, write.
\* A file that cannot be read or parsed is left alone (the lock's catch).
saveToFile(S) ==
    IF Readable(S) THEN [S EXCEPT !.file = saveOver(S.file, S)] ELSE S

CredSeq == [c \in Creds |-> c]

\* generateProjectId() and generateSessionId() return random names: they are
\* modelled as names unique to the record and to the loadTokens call.
NewProjectId(c, g) == ProjectIdBase * g + c
NewSessionId(c, g) == 0 - (ProjectIdBase * g + c)

\* A load that gives every record a new projectId.
AlwaysNeedsProjectId(rec) == TRUE

\* if (!token.projectId)
NeedsProjectId(rec) == rec.projectId = 0

\* needSave of loadTokens: some record got a projectId.
needSave(S) == Readable(S) /\ \E c \in Creds : NeedsProjectId(S.file[c])

\* loadTokens: records without a projectId get one and the array is written
\* back at once with fs.writeFileSync; this.tokens becomes fresh objects, one
\* per record whose enable is not false, in file order, each with a new
\* sessionId.  When the file cannot be read or parsed this.tokens is empty.
loadTokens(S) ==
    LET g == S.gen + 1
        tokenArray == [c \in Creds |->
                          IF NeedsProjectId(S.file[c])
                          THEN [S.file[c] EXCEPT !.projectId = NewProjectId(c, g)]
                          ELSE S.file[c]]
        enabled == SelectSeq(CredSeq, LAMBDA c : tokenArray[c].enable)
        fresh == [k \in 1..Len(enabled) |-> <<enabled[k], g>>]
    IN  IF ~Readable(S)
        THEN [S EXCEPT !.gen = g, !.tokens = <<>>]
        ELSE [S EXCEPT !.gen = g,
                       !.file = tokenArray,
                       !.tokens = fresh,
                       !.heap = [o \in DOMAIN S.heap \cup {fresh[k] : k \in 1..Len(fresh)} |->
                                    IF Rt(o) \in Creds /\ o[2] = g
                                    THEN [tokenArray[Rt(o)] EXCEPT !.sessionId = NewSessionId(Rt(o), g)]
                                    ELSE S.heap[o]]]

\* The synchronous first statement of disableToken: token.enable = false.
markDisabled(S, o) == [S EXCEPT !.heap[o].enable = FALSE]

\* The rest of disableToken: await saveToFile(), then loadTokens().
finishDisable(S) == loadTokens(saveToFile(S))

\* disableToken(token).
disableToken(S, o) == finishDisable(markDisabled(S, o))

\* disableCurrentToken(token): disables the first object of this.tokens whose
\* access_token equals the given object's, if there is one.
disableCurrentToken(S, o) ==
    LET hits == {k \in 1..Len(S.tokens) :
                    S.heap[S.tokens[k]].access_token = S.heap[o].access_token}
    IN  IF hits = {} THEN S ELSE disableToken(S, S.tokens[Min(hits)])

\* The credentials disableCurrentToken(token) calls disableToken for.
disableCurrentTarget(S, o) ==
    LET hits == {k \in 1..Len(S.tokens) :
                    S.heap[S.tokens[k]].access_token = S.heap[o].access_token}
    IN  IF hits = {} THEN {} ELSE {Rt(S.tokens[Min(hits)])}

\* refreshToken's success branch, its assignments: the object gets the new
\* access token.
gotAccess(S, o, access, t) ==
    [S EXCEPT !.heap[o] = [@ EXCEPT !.access_token = access,
                                    !.expires_in = ExpiresIn,
                                    !.timestamp = t]]

\* refreshToken's success branch: the assignments; the refresh is counted by
\* the caller; saveToFile() follows.
refreshed(S, o, access, t) == saveToFile(gotAccess(S, o, access, t))

\* Objects no longer referenced by this.tokens or by a request are dropped.
Collect(S, rq) ==
    LET live == ({S.tokens[k] : k \in 1..Len(S.tokens)} \cup
                 {rq[r].tok : r \in Reqs}) \ {NoTok}
    IN  [S EXCEPT !.heap = [o \in live |-> S.heap[o]]]

Store == [file |-> file, tokens |-> tokens, heap |-> heap, gen |-> gen, ok |-> io.ok]

(***************************************************************************)
(* Requests.  pc is the await the handler is suspended at:                 *)
(*   idle      not arrived yet                                             *)
(*   queued    waiting in the admission queue                              *)
(*   refresh   in getToken, awaiting refreshToken(tok)                     *)
(*   fetch     in generateAssistantResponse, awaiting the upstream POST    *)
(*   stream    reading the upstream body                                   *)
(*   mfetch    in getAvailableModels, awaiting the upstream POST           *)
(*   ended     the handler wrote its response (status) and returned        *)
(*   done      the response's 'finish' event was delivered                 *)
(*   rejected  answered 503 queue_full by the limiter                      *)
(* acq, rel, used and reused are history: credentials getToken returned to *)
(* this request, releases it made, credentials of its upstream attempts,   *)
(* and whether an attempt used a credential of an earlier attempt.         *)
(* starved is history: <<triedTokens>> of the selection loop that selected *)
(* nothing for this request.                                               *)
(***************************************************************************)
IdleReq ==
    [pc |-> "idle", kind |-> "chat", tok |-> NoTok, retryCount |-> 0,
     tried |-> {}, i |-> 0, initLen |-> 0, status |-> 0, retryAfterHdr |-> 0,
     slot |-> "none", acq |-> 0, rel |-> 0, used |-> {}, reused |-> FALSE,
     rejRunning |-> 0, rejWaiting |-> 0,
     res |-> "none", closed |-> FALSE, wroteAfterClose |-> FALSE,
     lastFailure |-> -1, skipped |-> FALSE, starved |-> <<>>]

\* The status the route answers an error with.  statusCode is the error's
\* statusCode property (0: none), msgCode the "(code)" its message carries.
IngressStatus(kind, statusCode, msgCode) ==
    IF kind = "models" THEN 500
    ELSE IF statusCode # 0 THEN statusCode
    ELSE IF msgCode \in {401, 403} THEN 401
    ELSE IF msgCode = 429 THEN 429
    ELSE 500

\* The type of the error body the route answers `status` with.
ErrorType(status) ==
    IF status = 429 THEN "rate_limit_error"
    ELSE IF status = 503 THEN "service_unavailable"
    ELSE IF status = 401 THEN "authentication_error"
    ELSE "api_error"

\* The route's handler returns with `status`: the handler's locals are gone.
\* What reaches the client depends on res.headersSent.  Nothing was sent:
\* the JSON answer (or the whole stream) goes out and the response ends.
\* The limiter already answered 504: res.json throws into the catch block,
\* which does nothing once headers are sent.  Chunks were written: a
\* success writes the last chunk and calls res.end(), an error does nothing
\* and the response stays open.
Ended(rec, status, retryAfterHdr) ==
    LET gone == [rec EXCEPT !.tok = NoTok, !.retryCount = 0, !.tried = {}, !.i = 0,
                            !.initLen = 0, !.used = {}, !.skipped = FALSE]
    IN  IF rec.kind = "chat" /\ rec.res = "ended"
        THEN [gone EXCEPT !.pc = "ended"]
        ELSE IF rec.kind = "chat" /\ rec.res = "headers" /\ status # 200
        THEN [gone EXCEPT !.pc = "open"]
        ELSE [gone EXCEPT !.pc = "ended", !.res = "ended", !.status = status,
                          !.retryAfterHdr = retryAfterHdr]

\* An error leaves generateAssistantResponse / getAvailableModels and the
\* route's catch block answers it.
Throw(rec, statusCode, msgCode, retryAfter) ==
    LET status == IngressStatus(rec.kind, statusCode, msgCode)
    IN  Ended(rec, status, IF rec.kind = "chat" /\ status = 429 THEN retryAfter ELSE 0)

\* getToken returns object o: the caller issues its upstream POST with it.
Returned(rec, o) ==
    [rec EXCEPT !.pc = IF rec.kind = "chat" THEN "fetch" ELSE "mfetch",
                !.tok = o, !.tried = {}, !.i = 0, !.initLen = 0,
                !.acq = @ + 1,
                !.reused = @ \/ Rt(o) \in rec.used,
                !.used = @ \cup {Rt(o)}]

\* One pass of getToken's for loop, from the loop test to the first await or
\* to the return/throw.  Gives the request's new record and the new counts.
GetTokenLoop(rec, tk, hp, act, st, t) ==
    IF rec.i >= rec.initLen \/ Len(tk) = 0
    THEN [rec |-> Throw(rec, 503, 0, 0), act |-> act]
    ELSE LET k == SelectedIndex(tk, rec.tried, act, st, t)
         IN  IF k = 0
             THEN LET e == SelectError(tk, rec.tried, act, st, t)
                  IN  [rec |-> [Throw(rec, e.statusCode, 0, e.retryAfter)
                                    EXCEPT !.starved = <<rec.tried>>],
                       act |-> act]
             ELSE IF isExpired(hp[tk[k]], t)
             THEN [rec |-> [rec EXCEPT !.pc = "refresh", !.tok = tk[k]],
                   act |-> incrementActive(act, Rt(tk[k]))]
             ELSE [rec |-> Returned(rec, tk[k]),
                   act |-> incrementActive(act, Rt(tk[k]))]

\* getToken from its first line.
getToken(rec, tk, hp, act, st, t) ==
    IF Len(tk) = 0
    THEN [rec |-> Throw(rec, 503, 0, 0), act |-> act]
    ELSE GetTokenLoop([rec EXCEPT !.i = 0, !.initLen = Len(tk), !.tried = {}],
                      tk, hp, act, st, t)

\* The store variables take the values of store S, garbage dropped.
SetStore(S) ==
    LET C == Collect(S, req')
    IN  /\ file' = C.file
        /\ tokens' = C.tokens
        /\ heap' = C.heap
        /\ gen' = C.gen

(***************************************************************************)
(* Initial state: the module-level "new TokenManager()" has run loadTokens *)
(* on a file whose records are all enabled; each access token is either    *)
(* valid or expired.  The queue is empty.                                  *)
(***************************************************************************)
ValidRecord(c) ==
    [enable |-> TRUE, access_token |-> c, timestamp |-> StartNow, expires_in |-> ExpiresIn,
     projectId |-> c, sessionId |-> 0, remark |-> 0]

ExpiredRecord(c) ==
    [enable |-> TRUE, access_token |-> c, timestamp |-> 0, expires_in |-> 0,
     projectId |-> c, sessionId |-> 0, remark |-> 0]

\* The write lock with nothing chained on it, nothing held by callers.
\* unlocked and raw are history: the writes made outside the lock, and the
\* projectId of each record of the file the process was started on.
IdleLock ==
    [ok |-> TRUE, chain |-> <<>>, running |-> <<>>, reloads |-> 0, held |-> {},
     unlocked |-> 0, raw |-> [c \in Creds |-> 0]]

\* A record whose access token is valid at StartNow and expired one tick
\* later: StartNow + ShortExpiresIn * 1000 - ExpirySkewMs = StartNow + TickMs.
ExpiringRecord(c) ==
    [enable |-> TRUE, access_token |-> c, timestamp |-> StartNow, expires_in |-> ShortExpiresIn,
     projectId |-> c, sessionId |-> 0, remark |-> 0]

InitialFiles == {f \in [Creds -> UNION {{ValidRecord(c), ExpiredRecord(c)} : c \in Creds}] :
                    \A c \in Creds : f[c].access_token = c}

InitServer(files, configs, oks) ==
    /\ now = StartNow
    /\ \E f \in files, ok \in oks :
          LET S0 == [file |-> f, tokens |-> <<>>, heap |-> <<>>, gen |-> 0, ok |-> ok]
              S == loadTokens(S0)
          IN  /\ file = S.file
              /\ tokens = S.tokens
              /\ heap = S.heap
              /\ gen = S.gen
              /\ io = [IdleLock EXCEPT !.ok = ok,
                                       !.unlocked = IF needSave(S0) THEN 1 ELSE 0,
                                       !.raw = [c \in Creds |-> f[c].projectId]]
    /\ nextAccess = NumCreds + 1
    /\ activeRequests = [c \in Creds |-> 0]
    /\ stats = [c \in Creds |-> initStats]
    /\ req = [r \in Reqs |-> IdleReq]
    /\ pending = 0
    /\ waiting = <<>>
    /\ \E q \in configs : cfg = [maxConcurrent |-> q[1], queueLimit |-> q[2],
                                  perTokenConcurrency |-> q[3]]
    /\ disableCalls = {}
    /\ lastRetryAfter = [c \in Creds |-> [until |-> 0, superseded |-> FALSE]]

\* The server with no upstream body looked at.
InitFrom(files, configs, oks) == InitServer(files, configs, oks) /\ sse = NoBody

\* The same with a file that can be read and parsed.
InitWith(files, configs) == InitFrom(files, configs, {TRUE})

\* Files in which only the last credential's access token may be expired.
LastMayBeExpired == {f \in InitialFiles : \A c \in Creds : c < NumCreds => f[c] = ValidRecord(c)}

\* Files in which every access token is valid.
AllValid == {[c \in Creds |-> ValidRecord(c)]}

Init == InitWith(LastMayBeExpired, DefaultConfigs)

InitQueue == InitWith(AllValid, QueueConfigs)

InitStore == InitWith(InitialFiles, {<<DefaultMaxConcurrent, DefaultQueueLimit, DefaultPerToken>>})

(***************************************************************************)
(* The admission queue (concurrencyLimiter over PQueue).                   *)
(***************************************************************************)
\* PQueue after a job's promise settled: the job leaves `pending` and the
\* oldest waiting job, if any, is started: its handler runs up to its first
\* await.  rq and act are the requests and counts the job's end left.
Dispatch(rq, act) ==
    IF waiting # <<>>
    THEN LET h == Head(waiting)
             res == getToken([rq[h] EXCEPT !.slot = "held"], tokens, heap, act, stats, now)
         IN  [req |-> [rq EXCEPT ![h] = res.rec], act |-> res.act,
              pending |-> pending, waiting |-> Tail(waiting)]
    ELSE [req |-> rq, act |-> act, pending |-> pending - 1, waiting |-> waiting]

\* POST /v1/chat/completions arrives and the limiter rejects it.
ArriveRejected(r) ==
    /\ req[r].pc = "idle"
    /\ pending >= cfg.queueLimit
    /\ req' = [req EXCEPT ![r] = [IdleReq EXCEPT !.pc = "rejected", !.status = 503, !.res = "ended",
                                                !.rejRunning = pending,
                                                !.rejWaiting = Len(waiting)]]
    /\ UNCHANGED <<now, file, tokens, heap, gen, nextAccess, activeRequests, stats,
                   pending, waiting, cfg, io, sse, disableCalls, lastRetryAfter>>

\* It arrives, is added and PQueue starts it at once.
ArriveStarted(r) ==
    /\ req[r].pc = "idle"
    /\ pending < cfg.queueLimit
    /\ pending < cfg.maxConcurrent
    /\ LET res == getToken([IdleReq EXCEPT !.slot = "held"], tokens, heap,
                           activeRequests, stats, now)
       IN  /\ req' = [req EXCEPT ![r] = res.rec]
           /\ activeRequests' = res.act
    /\ pending' = pending + 1
    /\ UNCHANGED <<now, file, tokens, heap, gen, nextAccess, stats, waiting, cfg, io, sse,
                   disableCalls, lastRetryAfter>>

\* It arrives, is added and has to wait.
ArriveQueued(r) ==
    /\ req[r].pc = "idle"
    /\ pending < cfg.queueLimit
    /\ pending >= cfg.maxConcurrent
    /\ req' = [req EXCEPT ![r] = [IdleReq EXCEPT !.pc = "queued"]]
    /\ waiting' = Append(waiting, r)
    /\ UNCHANGED <<now, file, tokens, heap, gen, nextAccess, activeRequests, stats,
                   pending, cfg, io, sse, disableCalls, lastRetryAfter>>

\* GET /v1/models arrives: the route is not behind the limiter.
ArriveModels(r) ==
    /\ req[r].pc = "idle"
    /\ LET res == getToken([IdleReq EXCEPT !.kind = "models"], tokens, heap,
                           activeRequests, stats, now)
       IN  /\ req' = [req EXCEPT ![r] = res.rec]
           /\ activeRequests' = res.act
    /\ UNCHANGED <<now, file, tokens, heap, gen, nextAccess, stats, pending, waiting,
                   cfg, io, sse, disableCalls, lastRetryAfter>>

\* safeResolve runs for the first time for r's job (the callers say which
\* event it was); rq is req with that event's change to r.
ReleaseSlot(r, rq, event) ==
    LET d == Dispatch([rq EXCEPT ![r].slot = event], activeRequests)
    IN  /\ req' = d.req
        /\ activeRequests' = d.act
        /\ pending' = d.pending
        /\ waiting' = d.waiting

\* A resolve that frees a slot at every call.
resolveUnguarded(r, rq, event) == ReleaseSlot(r, rq, event)

\* safeResolve, the listener of 'finish' and 'close': only its first call
\* for a job resolves the job's promise; a job the timeout rejected stays so.
safeResolve(r, rq, event) ==
    IF req[r].slot = "held"
    THEN ReleaseSlot(r, rq, event)
    ELSE /\ req' = rq
         /\ UNCHANGED <<activeRequests, pending, waiting>>

\* A request whose response is complete: the handler's locals are gone and
\* the history of the request is dropped with them.
Finished(rec) ==
    [IdleReq EXCEPT !.pc = "done", !.kind = rec.kind, !.slot = rec.slot,
                    !.res = rec.res, !.closed = rec.closed,
                    !.wroteAfterClose = rec.wroteAfterClose]

\* The response's 'finish' event.
ResFinish(r) ==
    /\ req[r].pc = "ended"
    /\ safeResolve(r, [req EXCEPT ![r] = Finished(@)], "finish")
    /\ UNCHANGED <<now, file, tokens, heap, gen, nextAccess, stats, cfg, io, sse, disableCalls, lastRetryAfter>>

\* The connection's 'close' event while the handler is still running and
\* the job holds its slot: the client went away.
ClientClose(r) ==
    /\ req[r].pc \in {"refresh", "fetch", "stream"}
    /\ req[r].slot = "held"
    /\ safeResolve(r, [req EXCEPT ![r].closed = TRUE], "close")
    /\ UNCHANGED <<now, file, tokens, heap, gen, nextAccess, stats, cfg, io, sse, disableCalls, lastRetryAfter>>

\* The 'close' event at any other moment after the job started: after the
\* timeout freed the slot, after the handler returned, after 'finish'.
\* safeResolve runs again and finds `resolved` set, or the promise settled.
CloseLater(r) ==
    /\ ~req[r].closed
    /\ \/ req[r].pc \in {"refresh", "fetch", "stream"} /\ req[r].slot = "timeout"
       \/ req[r].pc \in {"ended", "open", "done"} /\ req[r].kind = "chat"
    /\ safeResolve(r, [req EXCEPT ![r].closed = TRUE], "close")
    /\ UNCHANGED <<now, file, tokens, heap, gen, nextAccess, stats, cfg, io, sse, disableCalls, lastRetryAfter>>

\* The 504 the limiter's catch block sends, unless headers were sent.
TimeoutAnswer(rec) ==
    IF rec.res = "none" THEN [rec EXCEPT !.res = "ended", !.status = 504] ELSE rec

\* A timeout that answers 504 and leaves the job in the queue.
QueueTimeoutKeepsSlot(r) ==
    /\ req[r].pc \in {"refresh", "fetch", "stream", "ended", "open"}
    /\ req[r].slot = "held"
    /\ req[r].res = "none"
    /\ req' = [req EXCEPT ![r] = TimeoutAnswer(@)]
    /\ UNCHANGED <<now, file, tokens, heap, gen, nextAccess, activeRequests, stats,
                   pending, waiting, cfg, io, sse, disableCalls, lastRetryAfter>>

\* PQueue's timeout for r's job expires before the job's promise resolved:
\* the job is rejected, its slot is freed, the handler is not interrupted.
QueueTimeout(r) ==
    /\ req[r].pc \in {"refresh", "fetch", "stream", "ended", "open"}
    /\ req[r].slot = "held"
    /\ ReleaseSlot(r, [req EXCEPT ![r] = TimeoutAnswer(@)], "timeout")
    /\ UNCHANGED <<now, file, tokens, heap, gen, nextAccess, stats, cfg, io, sse, disableCalls, lastRetryAfter>>

(***************************************************************************)
(* getToken resumed by the answer of the OAuth endpoint.                   *)
(***************************************************************************)
\* refreshToken got a 2xx: getToken returns the token.
RefreshOk(r) ==
    /\ req[r].pc = "refresh"
    /\ nextAccess <= NumCreds + MaxRefresh
    /\ req' = [req EXCEPT ![r] = Returned(@, @.tok)]
    /\ stats' = recordRefresh(stats, Rt(req[r].tok))
    /\ nextAccess' = nextAccess + 1
    /\ SetStore(refreshed(Store, req[r].tok, nextAccess, now))
    /\ UNCHANGED <<now, activeRequests, pending, waiting, cfg, io, sse, disableCalls, lastRetryAfter>>

\* The error codes a refresh can fail with; 0 is a transport failure.
RefreshErrors == {0, 400, 401, 403, 429, 500}

\* The retry-after values (ms) an answer can carry; 0 is none.
RetryAfters(code) == IF code = 429 THEN {0, RetryAfterMs} ELSE {0}

\* History: an outcome was recorded for c; 200 is a success.
NoteOutcome(c, code, ra) ==
    IF code = 429 /\ ra # 0
    THEN [lastRetryAfter EXCEPT ![c] = [until |-> now + ra, superseded |-> FALSE]]
    ELSE IF lastRetryAfter[c].until > now
    THEN [lastRetryAfter EXCEPT ![c].superseded = TRUE]
    ELSE lastRetryAfter

\* refreshToken threw: the catch block of getToken, then the next pass of
\* its loop; a disable it started completes once getToken is suspended again.
RefreshFail(r, code, ra) ==
    /\ req[r].pc = "refresh"
    /\ code \in {401, 403} => gen < MaxGen
    /\ LET o == req[r].tok
           c == Rt(o)
           act1 == rollback(activeRequests, c)
           st1 == recordFailure(stats, c, code, ra, now)
           rec1 == [req[r] EXCEPT !.tried = @ \cup {c}, !.i = @ + 1, !.tok = NoTok]
           S1 == IF code \in {401, 403} THEN markDisabled(Store, o) ELSE Store
           res == GetTokenLoop(rec1, S1.tokens, S1.heap, act1, st1, now)
       IN  /\ req' = [req EXCEPT ![r] = res.rec]
           /\ activeRequests' = res.act
           /\ stats' = st1
           /\ disableCalls' = IF code \in {401, 403}
                              THEN disableCalls \cup {<<c, "refresh">>}
                              ELSE disableCalls
           /\ SetStore(IF code \in {401, 403} THEN finishDisable(S1) ELSE S1)
           /\ lastRetryAfter' = NoteOutcome(c, code, ra)
    /\ UNCHANGED <<now, nextAccess, pending, waiting, cfg, io, sse>>

(***************************************************************************)
(* generateAssistantResponse resumed by the answer of the upstream POST.   *)
(***************************************************************************)
\* A 2xx: the streaming phase starts.
UpstreamOk(r) ==
    /\ req[r].pc = "fetch"
    /\ req' = [req EXCEPT ![r].pc = "stream"]
    /\ UNCHANGED <<now, file, tokens, heap, gen, nextAccess, activeRequests, stats,
                   pending, waiting, cfg, io, sse, disableCalls, lastRetryAfter>>

\* A retry policy that also retries other 4xx answers.
RetryableErrorsWith400 == {0, 400, 429, 500}

\* The retryable failures: transport (0), 429, 5xx.
RetryableErrors == {0, 429, 500}

\* A recursion that passes retryCount on unchanged.
UpstreamRetrySameCount(r, code, ra) ==
    /\ req[r].pc = "fetch"
    /\ req[r].retryCount < maxRetries
    /\ LET c == Rt(req[r].tok)
           st1 == recordFailure(stats, c, code, ra, now)
           act1 == releaseToken(activeRequests, c)
           rec1 == [req[r] EXCEPT !.rel = @ + 1, !.tok = NoTok, !.lastFailure = code]
           res == getToken(rec1, tokens, heap, act1, st1, now)
       IN  /\ req' = [req EXCEPT ![r] = res.rec]
           /\ activeRequests' = res.act
           /\ stats' = st1
           /\ lastRetryAfter' = NoteOutcome(c, code, ra)
    /\ SetStore(Store)
    /\ UNCHANGED <<now, nextAccess, pending, waiting, cfg, io, sse, disableCalls>>

\* A retryable failure with budget left: record, release, recurse.
UpstreamRetry(r, code, ra) ==
    /\ req[r].pc = "fetch"
    /\ req[r].retryCount < maxRetries
    /\ LET c == Rt(req[r].tok)
           st1 == recordFailure(stats, c, code, ra, now)
           act1 == releaseToken(activeRequests, c)
           rec1 == [req[r] EXCEPT !.retryCount = @ + 1, !.rel = @ + 1, !.tok = NoTok,
                                 !.lastFailure = code]
           res == getToken(rec1, tokens, heap, act1, st1, now)
       IN  /\ req' = [req EXCEPT ![r] = res.rec]
           /\ activeRequests' = res.act
           /\ stats' = st1
           /\ lastRetryAfter' = NoteOutcome(c, code, ra)
    /\ SetStore(Store)
    /\ UNCHANGED <<now, nextAccess, pending, waiting, cfg, io, sse, disableCalls>>

\* A retryable failure with the budget used up: record and throw.
UpstreamExhausted(r, code, ra) ==
    /\ req[r].pc = "fetch"
    /\ req[r].retryCount >= maxRetries
    /\ stats' = recordFailure(stats, Rt(req[r].tok), code, ra, now)
    /\ req' = [req EXCEPT ![r] = Throw([@ EXCEPT !.lastFailure = code], 0, code, 0)]
    /\ lastRetryAfter' = NoteOutcome(Rt(req[r].tok), code, ra)
    /\ SetStore(Store)
    /\ UNCHANGED <<now, nextAccess, activeRequests, pending, waiting, cfg, io, sse, disableCalls>>

\* A 401 or 403: record, disableCurrentToken (not awaited), throw.
UpstreamAuth(r, code) ==
    /\ req[r].pc = "fetch"
    /\ gen < MaxGen
    /\ stats' = recordFailure(stats, Rt(req[r].tok), code, 0, now)
    /\ req' = [req EXCEPT ![r] = Throw([@ EXCEPT !.lastFailure = code], 0, code, 0)]
    /\ disableCalls' = disableCalls \cup
                        {<<c, "upstream">> : c \in disableCurrentTarget(Store, req[r].tok)}
    /\ SetStore(disableCurrentToken(Store, req[r].tok))
    /\ lastRetryAfter' = NoteOutcome(Rt(req[r].tok), code, 0)
    /\ UNCHANGED <<now, nextAccess, activeRequests, pending, waiting, cfg, io, sse>>

\* Any other 4xx: record and throw.
UpstreamOther(r) ==
    /\ req[r].pc = "fetch"
    /\ stats' = recordFailure(stats, Rt(req[r].tok), 400, 0, now)
    /\ req' = [req EXCEPT ![r] = Throw([@ EXCEPT !.lastFailure = 400], 0, 400, 0)]
    /\ SetStore(Store)
    /\ lastRetryAfter' = NoteOutcome(Rt(req[r].tok), 400, 0)
    /\ UNCHANGED <<now, nextAccess, activeRequests, pending, waiting, cfg, io, sse, disableCalls>>

\* A line of the body made the callback write a chunk to the response (a
\* streaming request): the first write sends the headers.  Nothing looks
\* at the connection before writing.
StreamChunk(r) ==
    /\ req[r].pc = "stream"
    /\ req[r].res # "ended"
    /\ req[r].res = "none" \/ (req[r].closed /\ ~req[r].wroteAfterClose)
    /\ req' = [req EXCEPT ![r].res = "headers",
                          ![r].status = 200,
                          ![r].wroteAfterClose = @ \/ req[r].closed]
    /\ UNCHANGED <<now, file, tokens, heap, gen, nextAccess, activeRequests, stats,
                   pending, waiting, cfg, io, sse, disableCalls, lastRetryAfter>>

\* A line of the body failed inside the per-line try block (JSON.parse or
\* the handling of its parts threw): the catch logs it and the loop goes on.
StreamLineSkipped(r) ==
    /\ req[r].pc = "stream"
    /\ ~req[r].skipped
    /\ req' = [req EXCEPT ![r].skipped = TRUE]
    /\ UNCHANGED <<now, file, tokens, heap, gen, nextAccess, activeRequests, stats,
                   pending, waiting, cfg, io, sse, disableCalls, lastRetryAfter>>

\* The body was read to its end: recordSuccess, then the finally block.
StreamOk(r) ==
    /\ req[r].pc = "stream"
    /\ stats' = recordSuccess(stats, Rt(req[r].tok), now)
    /\ activeRequests' = releaseToken(activeRequests, Rt(req[r].tok))
    /\ req' = [req EXCEPT ![r] = Ended([@ EXCEPT !.rel = @ + 1], 200, 0)]
    /\ SetStore(Store)
    /\ lastRetryAfter' = NoteOutcome(Rt(req[r].tok), 200, 0)
    /\ UNCHANGED <<now, nextAccess, pending, waiting, cfg, io, sse, disableCalls>>

\* Reading the body failed: recordFailure, rethrow, the finally block.
StreamError(r) ==
    /\ req[r].pc = "stream"
    /\ stats' = recordFailure(stats, Rt(req[r].tok), 0, 0, now)
    /\ activeRequests' = releaseToken(activeRequests, Rt(req[r].tok))
    /\ req' = [req EXCEPT ![r] = Throw([@ EXCEPT !.rel = @ + 1], 0, 0, 0)]
    /\ SetStore(Store)
    /\ lastRetryAfter' = NoteOutcome(Rt(req[r].tok), 0, 0)
    /\ UNCHANGED <<now, nextAccess, pending, waiting, cfg, io, sse, disableCalls>>

(***************************************************************************)
(* getAvailableModels resumed by the answer of the upstream POST.          *)
(***************************************************************************)
ModelsResult(r, ok) ==
    /\ req[r].pc = "mfetch"
    /\ activeRequests' = releaseToken(activeRequests, Rt(req[r].tok))
    /\ req' = [req EXCEPT ![r] =
                  IF ok THEN Ended([@ EXCEPT !.rel = @ + 1], 200, 0)
                  ELSE Throw([@ EXCEPT !.rel = @ + 1], 0, 0, 0)]
    /\ SetStore(Store)
    /\ UNCHANGED <<now, nextAccess, stats, pending, waiting, cfg, io, sse, disableCalls, lastRetryAfter>>

\* Time passes.
Tick ==
    /\ now < MaxNow
    /\ now' = now + TickMs
    /\ UNCHANGED <<file, tokens, heap, gen, nextAccess, activeRequests, stats, req,
                   pending, waiting, cfg, io, sse, disableCalls, lastRetryAfter>>

\* The server under the default configuration with NumReqs requests, none of
\* which is disconnected or timed out: the limiter admits and starts every
\* request at once.
Next ==
    \/ \E r \in SchedReqs : ArriveStarted(r)
    \/ \E r \in SchedReqs : ArriveModels(r)
    \/ \E r \in SchedReqs : ResFinish(r)
    \/ \E r \in SchedReqs : RefreshOk(r)
    \/ \E r \in SchedReqs, code \in RefreshErrors : \E ra \in RetryAfters(code) : RefreshFail(r, code, ra)
    \/ \E r \in SchedReqs : UpstreamOk(r)
    \/ \E r \in SchedReqs, code \in RetryableErrors : \E ra \in RetryAfters(code) : UpstreamRetry(r, code, ra)
    \/ \E r \in SchedReqs, code \in RetryableErrors : \E ra \in RetryAfters(code) : UpstreamExhausted(r, code, ra)
    \/ \E r \in SchedReqs, code \in {401, 403} : UpstreamAuth(r, code)
    \/ \E r \in SchedReqs : UpstreamOther(r)
    \/ \E r \in SchedReqs : StreamLineSkipped(r)
    \/ \E r \in SchedReqs : StreamOk(r)
    \/ \E r \in SchedReqs : StreamError(r)
    \/ \E r \in SchedReqs, ok \in BOOLEAN : ModelsResult(r, ok)
    \/ Tick

Spec == Init /\ [][Next]_vars

\* A non-2xx answer whose body cannot be read: "await response.text()"
\* rejects outside every try block, and the error leaves
\* generateAssistantResponse before any branch of the status code is taken.
UpstreamBodyLost(r) ==
    /\ req[r].pc = "fetch"
    /\ req' = [req EXCEPT ![r] = Throw(@, 0, 0, 0)]
    /\ SetStore(Store)
    /\ UNCHANGED <<now, nextAccess, activeRequests, stats, pending, waiting, cfg, io, sse,
                   disableCalls, lastRetryAfter>>

\* The server of Spec with the answers whose body is lost.
NextAttempts ==
    \/ Next
    \/ \E r \in SchedReqs : UpstreamBodyLost(r)

SpecAttempts == Init /\ [][NextAttempts]_vars

\* Some answer of the OAuth endpoint reaches r's getToken.
RefreshAnswer(r) ==
    \/ RefreshOk(r)
    \/ \E code \in RefreshErrors : \E ra \in RetryAfters(code) : RefreshFail(r, code, ra)

\* Some answer of the upstream POST reaches r's generateAssistantResponse.
UpstreamAnswer(r) ==
    \/ UpstreamOk(r)
    \/ \E code \in RetryableErrors : \E ra \in RetryAfters(code) : UpstreamRetry(r, code, ra)
    \/ \E code \in RetryableErrors : \E ra \in RetryAfters(code) : UpstreamExhausted(r, code, ra)
    \/ \E code \in {401, 403} : UpstreamAuth(r, code)
    \/ UpstreamOther(r)

\* The server of Spec with one request per credential at a time, where
\* every refresh call and every upstream call returns.
InitAnswered ==
    InitWith(LastMayBeExpired, {<<DefaultMaxConcurrent, DefaultQueueLimit, 1>>})

SpecAnswered ==
    /\ InitAnswered
    /\ [][Next]_vars
    /\ \A r \in SchedReqs : WF_vars(RefreshAnswer(r)) /\ WF_vars(UpstreamAnswer(r))

\* The server under the small queue configurations with NumQueueReqs
\* requests, client disconnects and queue timeouts.  Every access token is
\* valid and the upstream answers 2xx or a 4xx that is not retried.
NextQueue ==
    \/ \E r \in QueueReqs : ArriveRejected(r)
    \/ \E r \in QueueReqs : ArriveStarted(r)
    \/ \E r \in QueueReqs : ArriveQueued(r)
    \/ \E r \in QueueReqs : ArriveModels(r)
    \/ \E r \in QueueReqs : ResFinish(r)
    \/ \E r \in QueueReqs : ClientClose(r)
    \/ \E r \in QueueReqs : QueueTimeout(r)
    \/ \E r \in QueueReqs : UpstreamOk(r)
    \/ \E r \in QueueReqs : UpstreamOther(r)
    \/ \E r \in QueueReqs : StreamOk(r)
    \/ \E r \in QueueReqs : StreamError(r)
    \/ \E r \in QueueReqs, ok \in BOOLEAN : ModelsResult(r, ok)

SpecQueue == InitQueue /\ [][NextQueue]_vars

\* The server under the default configuration with NumStoreReqs chat
\* requests whose refreshes and upstream calls either succeed or are refused
\* with 401 or 403.
NextStore ==
    \/ \E r \in StoreReqs : ArriveStarted(r)
    \/ \E r \in StoreReqs : ResFinish(r)
    \/ \E r \in StoreReqs : RefreshOk(r)
    \/ \E r \in StoreReqs, code \in {401, 403} : RefreshFail(r, code, 0)
    \/ \E r \in StoreReqs : UpstreamOk(r)
    \/ \E r \in StoreReqs, code \in {401, 403} : UpstreamAuth(r, code)
    \/ \E r \in StoreReqs : StreamOk(r)

SpecStore == InitStore /\ [][NextStore]_vars

\* Files in which the access token of the first credential expires as time
\* passes and the others are valid, expired, or expire as time passes.
ExpiryFiles ==
    {f \in [Creds -> UNION {{ValidRecord(c), ExpiredRecord(c), ExpiringRecord(c)} : c \in Creds}] :
        /\ \A c \in Creds : f[c].access_token = c
        /\ f[1] = ExpiringRecord(1)}

InitExpiry == InitWith(ExpiryFiles, {<<DefaultMaxConcurrent, DefaultQueueLimit, DefaultPerToken>>})

\* getToken as time passes: requests whose refreshes succeed or fail and
\* whose upstream calls succeed.
NextExpiry ==
    \/ \E r \in StoreReqs : ArriveStarted(r)
    \/ \E r \in StoreReqs : ResFinish(r)
    \/ \E r \in StoreReqs : RefreshOk(r)
    \/ \E r \in StoreReqs, code \in {401, 500} : RefreshFail(r, code, 0)
    \/ \E r \in StoreReqs : UpstreamOk(r)
    \/ \E r \in StoreReqs : StreamOk(r)
    \/ Tick

SpecExpiry == InitExpiry /\ [][NextExpiry]_vars

\* The retry-after of an answer as the callers of recordFailure have it:
\* <<>> when the answer gives none (null), else <<milliseconds>>;
\* "Retry-After: 0" gives 0 in client.js (parseInt * 1000) and in
\* parseRetryAfter.
RetryAfterInputs == {<<>>} \cup {<<ms>> : ms \in {0, TickMs \div 2, RetryAfterMs}}

\* error.retryAfter as recordFailure tests it: null and 0 are both falsy, and
\* 0 is what the model passes for either.
retryAfterOf(h) == IF h = <<>> THEN 0 ELSE h[1]

\* recordFailure(token, {statusCode: 429, retryAfter}) is called.
Record429(c, h) ==
    /\ stats[c].totalRequests < MaxRecorded
    /\ stats' = recordFailure(stats, c, 429, retryAfterOf(h), now)
    /\ lastRetryAfter' = NoteOutcome(c, 429, retryAfterOf(h))
    /\ UNCHANGED <<now, file, tokens, heap, gen, nextAccess, activeRequests, req,
                   pending, waiting, cfg, io, sse, disableCalls>>

\* recordFailure is called with another failure: transport, 401, 5xx.
RecordOther(c, code) ==
    /\ stats[c].totalRequests < MaxRecorded
    /\ stats' = recordFailure(stats, c, code, 0, now)
    /\ lastRetryAfter' = NoteOutcome(c, code, 0)
    /\ UNCHANGED <<now, file, tokens, heap, gen, nextAccess, activeRequests, req,
                   pending, waiting, cfg, io, sse, disableCalls>>

\* recordSuccess(token) is called.
RecordSuccess(c) ==
    /\ stats[c].totalRequests < MaxRecorded
    /\ stats' = recordSuccess(stats, c, now)
    /\ lastRetryAfter' = NoteOutcome(c, 200, 0)
    /\ UNCHANGED <<now, file, tokens, heap, gen, nextAccess, activeRequests, req,
                   pending, waiting, cfg, io, sse, disableCalls>>

\* The statistics alone: outcomes recorded on the credentials in any order
\* as time passes.
NextRecord ==
    \/ \E c \in Creds, h \in RetryAfterInputs : Record429(c, h)
    \/ \E c \in Creds, code \in {0, 401, 500} : RecordOther(c, code)
    \/ \E c \in Creds : RecordSuccess(c)
    \/ Tick

SpecRecord == InitWith(AllValid, {<<DefaultMaxConcurrent, DefaultQueueLimit, DefaultPerToken>>})
              /\ [][NextRecord]_vars

\* A selection of getToken reserves credential c for caller r.
SelectCall(r, c) ==
    /\ req[r].acq < MaxCalls
    /\ ~IsOverloaded(activeRequests, c)
    /\ activeRequests' = incrementActive(activeRequests, c)
    /\ req' = [req EXCEPT ![r].acq = @ + 1]
    /\ UNCHANGED <<now, file, tokens, heap, gen, nextAccess, stats, pending, waiting, cfg,
                   io, sse, disableCalls, lastRetryAfter>>

\* Caller r calls releaseToken for credential c, reserved for it or not.
ReleaseCall(r, c) ==
    /\ req[r].rel < MaxCalls
    /\ activeRequests' = releaseToken(activeRequests, c)
    /\ req' = [req EXCEPT ![r].rel = @ + 1]
    /\ UNCHANGED <<now, file, tokens, heap, gen, nextAccess, stats, pending, waiting, cfg,
                   io, sse, disableCalls, lastRetryAfter>>

\* The catch block of getToken rolls back the count of credential c and
\* adds c to the caller's triedTokens.
RollbackCall(r, c) ==
    /\ req[r].rel < MaxCalls
    /\ activeRequests' = rollback(activeRequests, c)
    /\ req' = [req EXCEPT ![r].rel = @ + 1, ![r].tried = @ \cup {c}]
    /\ UNCHANGED <<now, file, tokens, heap, gen, nextAccess, stats, pending, waiting, cfg,
                   io, sse, disableCalls, lastRetryAfter>>

\* The active counts alone: selections, releases and rollbacks in any
\* order, acq and rel counting each caller's selections and give-backs.
NextCounts ==
    \/ \E r \in StoreReqs, c \in Creds : SelectCall(r, c)
    \/ \E r \in StoreReqs, c \in Creds : ReleaseCall(r, c)
    \/ \E r \in StoreReqs, c \in Creds : RollbackCall(r, c)

SpecCounts == InitWith(AllValid, {<<DefaultMaxConcurrent, DefaultQueueLimit, DefaultPerToken>>})
              /\ [][NextCounts]_vars

\* The limiter alone under the small queue configurations: NumBacklogReqs
\* chat requests that arrive, run to a successful end and finish.
NextBacklog ==
    \/ \E r \in BacklogReqs : ArriveRejected(r)
    \/ \E r \in BacklogReqs : ArriveStarted(r)
    \/ \E r \in BacklogReqs : ArriveQueued(r)
    \/ \E r \in BacklogReqs : UpstreamOk(r)
    \/ \E r \in BacklogReqs : StreamOk(r)
    \/ \E r \in BacklogReqs : ResFinish(r)

SpecBacklog == InitQueue /\ [][NextBacklog]_vars

\* The life of a chat response under the small queue configurations:
\* NumResponseReqs requests that stream or answer in one piece, fail before
\* or after the first chunk, are disconnected at any moment and time out.
NextResponse ==
    \/ \E r \in ResponseReqs : ArriveRejected(r)
    \/ \E r \in ResponseReqs : ArriveStarted(r)
    \/ \E r \in ResponseReqs : ArriveQueued(r)
    \/ \E r \in ResponseReqs : UpstreamOk(r)
    \/ \E r \in ResponseReqs : UpstreamOther(r)
    \/ \E r \in ResponseReqs : StreamChunk(r)
    \/ \E r \in ResponseReqs : StreamOk(r)
    \/ \E r \in ResponseReqs : StreamError(r)
    \/ \E r \in ResponseReqs : ResFinish(r)
    \/ \E r \in ResponseReqs : ClientClose(r)
    \/ \E r \in ResponseReqs : CloseLater(r)
    \/ \E r \in ResponseReqs : QueueTimeout(r)

SpecResponse == InitQueue /\ [][NextResponse]_vars

\* SpecResponse with PQueue's timer: the timeout of a job whose promise is
\* not settled does expire.
SpecTimed ==
    /\ SpecResponse
    /\ \A r \in ResponseReqs : WF_vars(QueueTimeout(r))

(***************************************************************************)
(* The credential file and its writers, one promise job at a time.         *)
(* writeFileWithLock chains its job on this.fileLock; a job reads the      *)
(* file, runs its operation on the array it read, gives way once (await    *)
(* operation(allTokens)) and writes the array back.  The callers are the   *)
(* code that obtained a token object from getToken, and updateRemark's.    *)
(***************************************************************************)
SaveOp(then) == [kind |-> "save", k |-> 0, text |-> 0, then |-> then]
RemarkOp(k, text) == [kind |-> "remark", k |-> k, text |-> text, then |-> "none"]

\* Files the process may be started on: a record is enabled or disabled and
\* has a projectId or none; no record has a sessionId.
RawFiles ==
    [Creds -> [enable : BOOLEAN, access_token : Creds, timestamp : {StartNow},
               expires_in : {ExpiresIn}, projectId : {0} \cup Creds, sessionId : {0},
               remark : {0}]]

StartFiles ==
    {f \in RawFiles : \A c \in Creds : f[c].access_token = c /\ f[c].projectId \in {0, c}}

Objects == Creds \X (1..MaxGen)
\* The indexes updateRemark is called with: the first record and one that is
\* out of range.
RemarkIndexes == {1, NumCreds + 1}
RemarkTexts == 1..NumRemarks

\* writeFileWithLock(operation): the job is chained on this.fileLock.
writeFileWithLock(op) == [io EXCEPT !.chain = Append(@, op)]

\* A lock that lets a job start while another is running.
LockAlwaysFree == TRUE

\* this.fileLock.then(...): a job starts when the job before it has ended.
LockIsFree == io.running = <<>>

\* Objects no longer referenced by this.tokens or by a caller are dropped.
CollectHeld(S, held) ==
    LET live == {S.tokens[k] : k \in 1..Len(S.tokens)} \cup held
    IN  [S EXCEPT !.heap = [o \in live |-> S.heap[o]]]

SetFileStore(S, held) ==
    LET C == CollectHeld(S, held)
    IN  /\ file' = C.file
        /\ tokens' = C.tokens
        /\ heap' = C.heap
        /\ gen' = C.gen

\* getToken returned object o of this.tokens to a caller.
Take(o) ==
    /\ o \in {tokens[k] : k \in 1..Len(tokens)}
    /\ o \notin io.held
    /\ Cardinality(io.held) < MaxHeld
    /\ io' = [io EXCEPT !.held = @ \cup {o}]
    /\ UNCHANGED <<now, file, tokens, heap, gen, nextAccess, activeRequests, stats, req,
                   pending, waiting, cfg, sse, disableCalls, lastRetryAfter>>

\* The caller is done with o.
Drop(o) ==
    /\ o \in io.held
    /\ io' = [io EXCEPT !.held = @ \ {o}]
    /\ SetFileStore(Store, io.held \ {o})
    /\ UNCHANGED <<now, nextAccess, activeRequests, stats, req,
                   pending, waiting, cfg, sse, disableCalls, lastRetryAfter>>

\* refreshToken(o) got a 2xx: the assignments, recordRefresh, and
\* saveToFile() which is not awaited.
RefreshedCall(o) ==
    /\ o \in io.held
    /\ nextAccess <= NumCreds + MaxRefresh
    /\ Len(io.chain) < MaxChain
    /\ heap' = gotAccess(Store, o, nextAccess, now).heap
    /\ stats' = recordRefresh(stats, Rt(o))
    /\ nextAccess' = nextAccess + 1
    /\ io' = writeFileWithLock(SaveOp("none"))
    /\ UNCHANGED <<now, file, tokens, gen, activeRequests, req,
                   pending, waiting, cfg, sse, disableCalls, lastRetryAfter>>

\* The loadTokens() calls still to come: one for each disableToken that
\* has not reached its own.
PendingLoads ==
    io.reloads
    + Cardinality({j \in 1..Len(io.chain) : io.chain[j].then = "load"})
    + Cardinality({j \in 1..Len(io.running) : io.running[j].op.then = "load"})

\* disableToken(o) up to its await: token.enable = false, saveToFile().
DisableCall(o) ==
    /\ o \in io.held
    /\ Len(io.chain) < MaxChain
    /\ gen + PendingLoads < MaxGen
    /\ heap' = markDisabled(Store, o).heap
    /\ io' = writeFileWithLock(SaveOp("load"))
    /\ UNCHANGED <<now, file, tokens, gen, nextAccess, activeRequests, stats, req,
                   pending, waiting, cfg, sse, disableCalls, lastRetryAfter>>

\* updateRemark(tokenIndex, remark) up to its await; k is tokenIndex + 1.
RemarkCall(k, text) ==
    /\ Len(io.chain) < MaxChain
    /\ io' = writeFileWithLock(RemarkOp(k, text))
    /\ UNCHANGED <<now, file, tokens, heap, gen, nextAccess, activeRequests, stats, req,
                   pending, waiting, cfg, sse, disableCalls, lastRetryAfter>>

\* The job at the head of the chain starts: it reads the file and runs its
\* operation on what it read.  saveToFile's operation overlays copies of the
\* objects of this.tokens; updateRemark's sets the remark of record k and of
\* the object in memory, and throws when k is out of range.  A file that
\* cannot be read or an operation that throws ends the job: it returns false.
LockRead ==
    /\ io.chain # <<>>
    /\ LockIsFree
    /\ LET op == Head(io.chain)
           fails == ~Readable(Store) \/ (op.kind = "remark" /\ op.k \notin Creds)
           modified == IF op.kind = "save" THEN saveOver(file, Store)
                       ELSE [file EXCEPT ![op.k].remark = op.text]
           idx == IF op.kind = "remark" /\ ~fails THEN IndexOf(tokens, op.k) ELSE 0
       IN  /\ io' = IF fails
                    THEN [io EXCEPT !.chain = Tail(@),
                                    !.reloads = @ + (IF op.then = "load" THEN 1 ELSE 0)]
                    ELSE [io EXCEPT !.chain = Tail(@),
                                    !.running = Append(@, [op |-> op, read |-> file,
                                                           modified |-> modified])]
           /\ heap' = IF idx # 0 THEN [heap EXCEPT ![tokens[idx]].remark = op.text] ELSE heap
    /\ UNCHANGED <<now, file, tokens, gen, nextAccess, activeRequests, stats, req,
                   pending, waiting, cfg, sse, disableCalls, lastRetryAfter>>

\* A running job resumes after its await and writes its array to the file;
\* the disableToken that awaited it goes on to loadTokens().
LockWrite ==
    \E j \in 1..Len(io.running) :
        /\ file' = io.running[j].modified
        /\ io' = [io EXCEPT !.running = SubSeq(@, 1, j - 1) \o SubSeq(@, j + 1, Len(@)),
                            !.reloads = @ + (IF io.running[j].op.then = "load" THEN 1 ELSE 0)]
        /\ UNCHANGED <<now, tokens, heap, gen, nextAccess, activeRequests, stats, req,
                       pending, waiting, cfg, sse, disableCalls, lastRetryAfter>>

\* The loadTokens() that ends a disableToken.
Reload ==
    /\ io.reloads > 0
    /\ gen < MaxGen
    /\ io' = [io EXCEPT !.reloads = @ - 1,
                        !.unlocked = @ + (IF needSave(Store) THEN 1 ELSE 0)]
    /\ SetFileStore(loadTokens(Store), io.held)
    /\ UNCHANGED <<now, nextAccess, activeRequests, stats, req,
                   pending, waiting, cfg, sse, disableCalls, lastRetryAfter>>

\* The process is started again on the file as it is: new TokenManager().
Restart ==
    /\ gen + PendingLoads < MaxGen
    /\ LET S0 == [file |-> file, tokens |-> <<>>, heap |-> <<>>, gen |-> gen, ok |-> io.ok]
       IN  /\ SetFileStore(loadTokens(S0), {})
           /\ io' = [IdleLock EXCEPT !.ok = io.ok,
                                     !.unlocked = io.unlocked + (IF needSave(S0) THEN 1 ELSE 0),
                                     !.raw = io.raw]
    /\ stats' = [c \in Creds |-> initStats]
    /\ UNCHANGED <<now, nextAccess, activeRequests, req,
                   pending, waiting, cfg, sse, disableCalls, lastRetryAfter>>

NextFile ==
    \/ \E o \in Objects : Take(o)
    \/ \E o \in Objects : Drop(o)
    \/ \E o \in Objects : RefreshedCall(o)
    \/ \E o \in Objects : DisableCall(o)
    \/ \E k \in RemarkIndexes, text \in RemarkTexts : RemarkCall(k, text)
    \/ LockRead
    \/ LockWrite
    \/ Reload
    \/ Restart

InitFile ==
    InitFrom(StartFiles, {<<DefaultMaxConcurrent, DefaultQueueLimit, DefaultPerToken>>}, BOOLEAN)

SpecFile == InitFile /\ [][NextFile]_vars

\* The server started without a credential file, or on one that does not
\* parse, under the small queue configurations: NumBacklogReqs requests
\* arrive, are answered, finish or are disconnected.
InitNoFile == InitFrom(AllValid, QueueConfigs, {FALSE})

NextNoFile ==
    \/ \E r \in BacklogReqs : ArriveRejected(r)
    \/ \E r \in BacklogReqs : ArriveStarted(r)
    \/ \E r \in BacklogReqs : ArriveQueued(r)
    \/ \E r \in BacklogReqs : ArriveModels(r)
    \/ \E r \in BacklogReqs : ResFinish(r)
    \/ \E r \in BacklogReqs : CloseLater(r)
    \/ \E r \in BacklogReqs : QueueTimeout(r)
    \/ Tick

SpecNoFile == InitNoFile /\ [][NextNoFile]_vars

(***************************************************************************)
(* The read loop of generateAssistantResponse on one upstream body.        *)
(* Strings are sequences of characters; a body is a sequence of bytes.     *)
(* The character E is the one character of the model that takes two bytes  *)
(* in UTF-8 (E1, E2); every other character is its own byte.  A "data: "   *)
(* line stands for an SSE event whose JSON carries one part: the payload   *)
(* of the line is the text of a text part, or "!" and the text of a part   *)
(* with thought === true, or "#" and the id of a functionCall part; a "$"  *)
(* at its end stands for a finishReason on the candidate.                  *)
(***************************************************************************)
NL == "\n"
DataPrefix == <<"d", "a", "t", "a", ":", " ">>
ThinkOpen == <<"<", "t", "h", "i", "n", "k", ">">>
ThinkClose == <<"<", "/", "t", "h", "i", "n", "k", ">">>

\* s.startsWith(p)
StartsWith(s, p) == Len(s) >= Len(p) /\ SubSeq(s, 1, Len(p)) = p

\* s.indexOf(p) + 1: the first position at which p occurs in s, 0 if none.
IndexOfSub(s, p) ==
    LET hits == {i \in 1..(Len(s) - Len(p) + 1) : SubSeq(s, i, i + Len(p) - 1) = p}
    IN  IF hits = {} THEN 0 ELSE Min(hits)

\* s.substring(from - 1)
From(s, from) == SubSeq(s, from, Len(s))

\* UTF-8 of a string.
RECURSIVE Encode(_)
Encode(s) ==
    IF s = <<>> THEN <<>>
    ELSE (IF Head(s) = "E" THEN <<"E1", "E2">> ELSE <<Head(s)>>) \o Encode(Tail(s))

\* new TextDecoder().decode(value): each call decodes its bytes on their
\* own; a sequence that is not complete within them becomes U+FFFD ("?").
RECURSIVE decode(_)
decode(b) ==
    IF b = <<>> THEN <<>>
    ELSE IF Head(b) = "E1" /\ Len(b) >= 2 /\ b[2] = "E2" THEN <<"E">> \o decode(From(b, 3))
    ELSE IF Head(b) \in {"E1", "E2"} THEN <<"?">> \o decode(Tail(b))
    ELSE <<Head(b)>> \o decode(Tail(b))

\* s.split('\n'): the pieces between the newlines, one more than newlines.
RECURSIVE Split(_)
Split(s) ==
    LET at == IndexOfSub(s, <<NL>>)
    IN  IF at = 0 THEN <<s>>
        ELSE <<SubSeq(s, 1, at - 1)>> \o Split(From(s, at + 1))

\* A splitter that holds nothing back.
NoHoldback(thinkingMode) == 0

\* The characters processBuffer keeps when the tag it looks for is not in
\* the buffer: 6 in normal mode, 7 in thinking mode.
Holdback(thinkingMode) == IF thinkingMode THEN KeepThinking ELSE KeepNormal

\* processBuffer() on the state [textBuffer, thinkingMode, events,
\* toolCalls]; an event is <<type, content>>.
RECURSIVE processBuffer(_)
processBuffer(st) ==
    LET tag == IF st.thinkingMode THEN ThinkClose ELSE ThinkOpen
        type == IF st.thinkingMode THEN "thinking" ELSE "text"
        at == IndexOfSub(st.textBuffer, tag)
        safeLength == Len(st.textBuffer) - Holdback(st.thinkingMode)
    IN  IF at = 0
        THEN IF safeLength > 0
             THEN [st EXCEPT !.textBuffer = From(@, safeLength + 1),
                             !.events = Append(@, <<type, SubSeq(st.textBuffer, 1, safeLength)>>)]
             ELSE st
        ELSE processBuffer(
                [textBuffer |-> From(st.textBuffer, at + Len(tag)),
                 thinkingMode |-> ~st.thinkingMode,
                 events |-> IF at > 1
                            THEN Append(st.events, <<type, SubSeq(st.textBuffer, 1, at - 1)>>)
                            ELSE st.events,
                 toolCalls |-> st.toolCalls])

ThoughtMark == <<"!">>

\* part.thought === true: processBuffer runs if textBuffer is not empty,
\* then the thinking event is emitted.
thoughtPart(st, text) ==
    LET st1 == IF st.textBuffer # <<>> THEN processBuffer(st) ELSE st
    IN  [st1 EXCEPT !.events = Append(@, <<"thinking", text>>)]

\* part.text !== undefined: the text is added to textBuffer and
\* processBuffer runs.
textPart(st, text) == processBuffer([st EXCEPT !.textBuffer = @ \o text])

CallMark == <<"#">>
FinishMark == "$"

\* part.functionCall: the call is pushed on toolCalls.
functionCallPart(st, id) == [st EXCEPT !.toolCalls = Append(@, id)]

\* After the parts of a frame: with a finishReason and toolCalls not empty,
\* the tool_calls event is emitted and toolCalls is emptied.
finish(st, finishReason) ==
    IF finishReason /\ st.toolCalls # <<>>
    THEN [st EXCEPT !.events = Append(@, <<"tool_calls", st.toolCalls>>), !.toolCalls = <<>>]
    ELSE st

\* One frame: its part, if it has one, then its finishReason.
frame(st, payload) ==
    LET finishReason == payload # <<>> /\ payload[Len(payload)] = FinishMark
        part == IF finishReason THEN SubSeq(payload, 1, Len(payload) - 1) ELSE payload
    IN  finish(IF part = <<>> THEN st
               ELSE IF StartsWith(part, CallMark) THEN functionCallPart(st, Tail(part))
               ELSE IF StartsWith(part, ThoughtMark) THEN thoughtPart(st, Tail(part))
               ELSE textPart(st, part),
               finishReason)

\* The for loop over the lines of one chunk, each line with its frame.
RECURSIVE processLines(_, _)
processLines(st, lines) ==
    IF lines = <<>> THEN st
    ELSE processLines(frame(st, From(Head(lines), Len(DataPrefix) + 1)), Tail(lines))

\* The flush after the loop: what is left in textBuffer is emitted with the
\* type of the current mode.
flush(st) ==
    IF st.textBuffer # <<>>
    THEN [st EXCEPT !.textBuffer = <<>>,
                    !.events = Append(@, <<IF st.thinkingMode THEN "thinking" ELSE "text",
                                           st.textBuffer>>)]
    ELSE st

\* The state of the read loop before the first read.  text and body are
\* history: the text the parts were cut from, the bytes of the whole body.
Reading(text, body, chunks) ==
    [pc |-> "reading", text |-> text, body |-> body, chunks |-> chunks,
     lineBuffer |-> <<>>, textBuffer |-> <<>>, thinkingMode |-> FALSE, events |-> <<>>,
     toolCalls |-> <<>>]

\* reader.read() returned a chunk: it is decoded and added to lineBuffer,
\* the complete lines that start with "data: " are processed, the piece
\* after the last newline stays in lineBuffer.
ChunkArrives ==
    /\ sse.pc = "reading"
    /\ sse.chunks # <<>>
    /\ LET lineParts == Split(sse.lineBuffer \o decode(Head(sse.chunks)))
           complete == SubSeq(lineParts, 1, Len(lineParts) - 1)
           lines == SelectSeq(complete, LAMBDA line : StartsWith(line, DataPrefix))
           st == processLines([textBuffer |-> sse.textBuffer,
                               thinkingMode |-> sse.thinkingMode,
                               events |-> sse.events,
                               toolCalls |-> sse.toolCalls], lines)
       IN  sse' = [sse EXCEPT !.chunks = Tail(@),
                              !.lineBuffer = lineParts[Len(lineParts)],
                              !.textBuffer = st.textBuffer,
                              !.thinkingMode = st.thinkingMode,
                              !.events = st.events,
                              !.toolCalls = st.toolCalls]
    /\ UNCHANGED <<now, file, tokens, heap, gen, nextAccess, activeRequests, stats, req,
                   pending, waiting, cfg, io, disableCalls, lastRetryAfter>>

\* reader.read() returned done: the loop ends and textBuffer is flushed.
BodyEnds ==
    /\ sse.pc = "reading"
    /\ sse.chunks = <<>>
    /\ LET st == flush([textBuffer |-> sse.textBuffer,
                        thinkingMode |-> sse.thinkingMode,
                        events |-> sse.events])
       IN  sse' = [sse EXCEPT !.pc = "done",
                              !.textBuffer = st.textBuffer,
                              !.events = st.events]
    /\ UNCHANGED <<now, file, tokens, heap, gen, nextAccess, activeRequests, stats, req,
                   pending, waiting, cfg, io, disableCalls, lastRetryAfter>>

NextBody == ChunkArrives \/ BodyEnds

\* The ways of cutting a sequence of n elements at no more than MaxCuts
\* places: the sets of the positions after which it is cut.
CutSets(n) ==
    {{}} \cup {{i} : i \in 1..(n - 1)}
         \cup (IF MaxCuts >= 2 THEN {{i, j} : i \in 1..(n - 1), j \in 1..(n - 1)} ELSE {})

\* Sequence s cut after the positions of cuts.
RECURSIVE CutAt(_, _)
CutAt(s, cuts) ==
    IF cuts = {} THEN <<s>>
    ELSE LET c == Min(cuts)
         IN  <<SubSeq(s, 1, c)>> \o CutAt(From(s, c + 1), {d - c : d \in cuts \ {c}})

\* A run of n characters a that ends with a "<".
RECURSIVE Run(_)
Run(n) == IF n <= 1 THEN <<"<">> ELSE <<"a">> \o Run(n - 1)

\* The text between and around the tags: nothing, a lone "<", and a run
\* longer than what processBuffer holds back.
Runs == {<<>>, Run(1), Run(LongRun)}

\* Texts with balanced tags: none, one reasoning segment, two of them.
TaggedTexts ==
    Runs
    \cup {a \o ThinkOpen \o b \o ThinkClose \o c : a \in Runs, b \in Runs, c \in Runs}
    \cup {ThinkOpen \o b \o ThinkClose \o ThinkOpen \o b \o ThinkClose : b \in {Run(1)}}

\* The chunks that carry the text parts, each as one SSE line.
LinesOf(parts) == [k \in 1..Len(parts) |-> Encode(DataPrefix \o parts[k] \o <<NL>>)]

RECURSIVE Concat(_)
Concat(ss) == IF ss = <<>> THEN <<>> ELSE Head(ss) \o Concat(Tail(ss))

\* A text with balanced tags, cut into successive text parts in any way.
SplitInputs ==
    UNION {{Reading(text, Concat(LinesOf(CutAt(text, cuts))), LinesOf(CutAt(text, cuts))) :
               cuts \in CutSets(Len(text))} :
           text \in TaggedTexts \ {<<>>}}

\* The payloads of the lines of a body, and its lines: events with a text
\* part, a comment, an empty line.
Payloads == {<<"a">>, <<"E">>}
BodyLines == {DataPrefix \o p : p \in Payloads} \cup {<<":">>, <<>>}

\* Bodies of one or two lines; the last line ends with a newline or not.
Bodies ==
    {Encode(l \o end) : l \in BodyLines, end \in {<<>>, <<NL>>}}
    \cup {Encode(l \o <<NL>> \o m \o end) : l \in BodyLines, m \in BodyLines, end \in {<<>>, <<NL>>}}

\* A body cut into network chunks in any way.
LineInputs ==
    UNION {{Reading(<<>>, body, CutAt(body, cuts)) : cuts \in CutSets(Len(body))} :
           body \in Bodies \ {<<>>}}

\* Texts without tags, shorter and longer than what processBuffer holds
\* back, and the text of a thought part.
ShortText == <<"x", "y">>
LongText == <<"a", "b", "c", "d", "e", "f", "g", "h">>
ThoughtText == <<"T">>

\* Streams of up to MaxParts parts, text parts and thought parts in any
\* order.
PartTexts == {ShortText, LongText, ThoughtMark \o ThoughtText, ThoughtMark}
PartStreams == UNION {[1..n -> PartTexts] : n \in 1..MaxParts}

\* A stream of parts, each in a frame and a chunk of its own or all frames
\* in one chunk.
ThoughtInputs ==
    UNION {{Reading(<<>>, Concat(LinesOf(parts)), LinesOf(parts)),
            Reading(<<>>, Concat(LinesOf(parts)), <<Concat(LinesOf(parts))>>)} :
           parts \in PartStreams}

\* Frames with a text part, a functionCall part with or without a
\* finishReason, a finishReason alone.
Frames == {ShortText, <<"#", "1">>, <<"#", "2">>, <<"#", "3", FinishMark>>, <<FinishMark>>}
FrameStreams == UNION {[1..n -> Frames] : n \in 1..MaxParts}

\* A stream of frames, each in a chunk of its own or all in one chunk.
ToolInputs ==
    UNION {{Reading(<<>>, Concat(LinesOf(frames)), LinesOf(frames)),
            Reading(<<>>, Concat(LinesOf(frames)), <<Concat(LinesOf(frames))>>)} :
           frames \in FrameStreams}

InitBody(inputs) ==
    /\ InitServer(AllValid, {<<DefaultMaxConcurrent, DefaultQueueLimit, DefaultPerToken>>}, {TRUE})
    /\ sse \in inputs

\* The read loop on texts with tags cut into parts.
SpecSplit == InitBody(SplitInputs) /\ [][NextBody]_vars

\* The read loop on bodies cut into chunks.
SpecLines == InitBody(LineInputs) /\ [][NextBody]_vars

\* The read loop on streams of text parts and thought parts.
SpecThought == InitBody(ThoughtInputs) /\ [][NextBody]_vars

\* The read loop on streams with functionCall parts and finishReasons.
SpecTools == InitBody(ToolInputs) /\ [][NextBody]_vars

\* r holds or is acquiring a credential.
InFlight(r) == req[r].pc \in {"refresh", "fetch", "stream", "mfetch"}

\* In this step getToken's loop selected a token object for r (and
\* incremented its count): r's token is new, or r re-entered getToken for a
\* retry and came out with a token.
Selects(r) ==
    /\ req'[r].tok # NoTok
    /\ \/ req'[r].tok # req[r].tok
       \/ req'[r].retryCount # req[r].retryCount

\* The credentials of this.tokens.
EnabledInMemory == {Rt(tokens[k]) : k \in 1..Len(tokens)}

RECURSIVE SumOver(_, _)
SumOver(f, S) ==
    IF S = {} THEN 0
    ELSE LET x == CHOOSE y \in S : TRUE IN f[x] + SumOver(f, S \ {x})

(***************************************************************************)
(* C1.  Every credential getToken returned to generateAssistantResponse is *)
(* released exactly once, whatever the outcome: a chat request that has    *)
(* ended made as many releases as it acquired credentials, and when no     *)
(* request is in flight every active count is 0.                           *)
(* Fails: the throws before the streaming phase (401/403, other 4xx,       *)
(* exhausted retries) are outside the try/finally that releases.           *)
(***************************************************************************)
C1_EverySelectionReleased ==
    /\ \A r \in Reqs : req[r].kind = "chat" /\ req[r].pc = "ended" => req[r].rel = req[r].acq
    /\ (\A r \in Reqs : ~InFlight(r)) => \A c \in Creds : activeRequests[c] = 0

(***************************************************************************)
(* C2.  In every reachable state each credential's active count is at most *)
(* perTokenConcurrency.                                                    *)
(***************************************************************************)
C2_ActiveWithinCap ==
    \A c \in Creds : activeRequests[c] <= cfg.perTokenConcurrency

\* The cap is what stops a selection: a credential that is neither cooling
\* nor disabled sits at its cap under a request in flight, every other
\* credential is cooling, and a request was answered 503.
C2_Witness ==
    \E c \in Creds, r \in Reqs, q \in Reqs :
        /\ c \in EnabledInMemory
        /\ ~IsCooling(stats, c, now)
        /\ activeRequests[c] = cfg.perTokenConcurrency
        /\ InFlight(q) /\ Rt(req[q].tok) = c
        /\ \A d \in EnabledInMemory \ {c} : IsCooling(stats, d, now)
        /\ req[r].pc = "ended" /\ req[r].status = 503

(***************************************************************************)
(* C3.  getToken never selects a credential whose cooldownUntil is later   *)
(* than the time of the selection.                                         *)
(***************************************************************************)
C3_NeverSelectsCooling ==
    [][\A r \in Reqs : Selects(r) => ~IsCooling(stats', Rt(req'[r].tok), now')]_vars

\* A retry went to the second credential while the first one is cooling.
C3_Witness ==
    \E r \in Reqs :
        /\ req[r].pc = "fetch"
        /\ req[r].retryCount > 0
        /\ Rt(req[r].tok) = 2
        /\ IsCooling(stats, 1, now)
        /\ activeRequests[1] = 0

(***************************************************************************)
(* C4 as stated.  After a credential received a 429 with retry-after D,    *)
(* every later selection skips it until D has elapsed, whatever other      *)
(* requests in flight on it record in the meantime.                        *)
(* Does not hold: recordSuccess and every recordFailure other than a 429   *)
(* clear cooldownUntil, and a 429 without retry-after replaces it.         *)
(***************************************************************************)
C4_SkippedUntilRetryAfterElapsed ==
    [][\A r \in Reqs :
          Selects(r) => lastRetryAfter'[Rt(req'[r].tok)].until <= now']_vars

(***************************************************************************)
(* C4, amended.  After a credential received a 429 with retry-after D,     *)
(* every later selection skips it until D has elapsed or another outcome   *)
(* (success, failure, another 429) has been recorded on it.                *)
(***************************************************************************)
C4_SkippedUntilElapsedOrSuperseded ==
    [][\A r \in Reqs :
          Selects(r) => LET h == lastRetryAfter'[Rt(req'[r].tok)]
                        IN  h.until <= now' \/ h.superseded]_vars

\* Time has passed, the retry-after of the first credential has not, nothing
\* else was recorded on it, and two requests share the second credential
\* although the first one is idle.
C4_Witness ==
    \E r \in Reqs : \E q \in Reqs \ {r} :
        /\ now > StartNow
        /\ lastRetryAfter[1].until > now
        /\ ~lastRetryAfter[1].superseded
        /\ activeRequests[1] = 0
        /\ 1 \in EnabledInMemory
        /\ req[r].pc = "fetch" /\ Rt(req[r].tok) = 2
        /\ req[q].pc = "fetch" /\ Rt(req[q].tok) = 2

(***************************************************************************)
(* C5.  A credential disableToken was called for is never selected         *)
(* afterwards.                                                             *)
(* Fails: disableToken sets enable=false on the object it is given, which  *)
(* is no longer the object in this.tokens once loadTokens has run.         *)
(***************************************************************************)
C5_DisabledNeverSelected ==
    [][\A r \in Reqs :
          Selects(r) => \A d \in disableCalls' : d[1] # Rt(req'[r].tok)]_vars

(***************************************************************************)
(* C6.  Once the disable that follows a refresh answered 401 or 403 has    *)
(* completed, the file records enable=false for the credential and the     *)
(* credential is not in this.tokens, for good.                             *)
(* Fails for the same reason as C5.                                        *)
(***************************************************************************)
C6_RefreshDisableSticks ==
    \A d \in disableCalls :
        d[2] = "refresh" => ~file[d[1]].enable /\ d[1] \notin EnabledInMemory

(***************************************************************************)
(* C7.  The sum of the active counts never exceeds maxConcurrent.          *)
(* Fails: /v1/models draws credentials without passing the limiter,        *)
(* counts leak (C1), and a slot freed by 'close' or by the timeout leaves  *)
(* its handler holding a credential.                                       *)
(***************************************************************************)
C7_TotalActiveWithinMaxConcurrent ==
    SumOver(activeRequests, Creds) <= cfg.maxConcurrent

(***************************************************************************)
(* C8.  Within one call chain of generateAssistantResponse no credential   *)
(* is used for more than one upstream attempt.                             *)
(* Fails: each getToken call starts with an empty triedTokens set.         *)
(***************************************************************************)
C8_NoCredentialReused ==
    \A r \in Reqs : ~req[r].reused

(***************************************************************************)
(* C9.  For every credential successCount + failureCount = totalRequests.  *)
(***************************************************************************)
C9_CountsAddUp ==
    \A c \in Creds :
        stats[c].successCount + stats[c].failureCount = stats[c].totalRequests

\* A credential has recorded successes and failures of every kind of branch.
C9_Witness ==
    \E c \in Creds :
        /\ stats[c].successCount > 0
        /\ stats[c].failureCount > 1
        /\ stats[c].consecutive429Count > 0

(***************************************************************************)
(* C10.  With maxConcurrent = M and queueLimit = L, of M + L + 1 requests  *)
(* arriving before any finishes only the last is rejected: a request is    *)
(* rejected only when M requests are running and L are waiting.            *)
(* Fails: the limiter compares PQueue.pending, the number of running jobs, *)
(* with queueLimit.                                                        *)
(***************************************************************************)
C10_RejectedOnlyWhenQueueFull ==
    \A r \in Reqs :
        req[r].pc = "rejected" =>
            /\ req[r].rejRunning = cfg.maxConcurrent
            /\ req[r].rejWaiting = cfg.queueLimit

(***************************************************************************)
(* C11.  The number of requests waiting in the admission queue never       *)
(* exceeds queueLimit.                                                     *)
(* Fails: the limiter compares the number of running jobs with queueLimit; *)
(* with maxConcurrent < queueLimit it never rejects and the queue grows    *)
(* without bound.                                                          *)
(***************************************************************************)
C11_WaitingWithinQueueLimit ==
    Len(waiting) <= cfg.queueLimit

(***************************************************************************)
(* C12.  At most maxConcurrent chat-completion handlers are executing at   *)
(* any time, handlers of requests the queue abandoned on timeout included. *)
(* Fails: the timeout, and the 'close' event, free the slot of a handler   *)
(* that goes on running, and the next job starts beside it.                *)
(***************************************************************************)
C12_HandlersWithinMaxConcurrent ==
    Cardinality({r \in Reqs : req[r].kind = "chat" /\ InFlight(r)}) <= cfg.maxConcurrent

(***************************************************************************)
(* C13.  The slot of an admitted request is released exactly once: the     *)
(* first of 'finish' and 'close' releases it and a later event has no      *)
(* effect on the queue.  So the queue's count of running jobs is always    *)
(* the number of jobs whose promise is neither resolved nor rejected, and  *)
(* the waiting jobs are exactly the requests not started yet.              *)
(***************************************************************************)
C13_SlotReleasedOnce ==
    /\ pending = Cardinality({r \in Reqs : req[r].slot = "held"})
    /\ Len(waiting) = Cardinality({r \in Reqs : req[r].pc = "queued"})
    /\ \A r \in Reqs : req[r].pc = "done" /\ req[r].kind = "chat" => req[r].slot # "held"

\* Both events fired for a finished request while another job holds a slot.
C13_Witness ==
    \E r \in Reqs : \E q \in Reqs \ {r} :
        /\ req[r].pc = "done" /\ req[r].slot = "finish" /\ req[r].closed
        /\ req[q].slot = "held"

(***************************************************************************)
(* C14.  When the queue timeout expires for a running handler the client   *)
(* gets a 504 if no headers were sent yet, and otherwise the server        *)
(* terminates the connection: either way the response of a handler that    *)
(* outlives its timeout is over.                                           *)
(* Fails: with headers sent the limiter's catch block does nothing.        *)
(***************************************************************************)
C14_TimeoutEndsResponse ==
    \A r \in Reqs :
        req[r].slot = "timeout" /\ InFlight(r) => req[r].res = "ended"

(***************************************************************************)
(* C18.  An error of a chat request is answered with a JSON error body if  *)
(* it is raised before the headers were sent, and makes the server close   *)
(* the connection if it is raised after: once the handler has returned the *)
(* response has ended.                                                     *)
(* Fails: the catch block does nothing once headers are sent.              *)
(***************************************************************************)
C18_ErrorEndsResponse ==
    \A r \in Reqs :
        req[r].pc \in {"ended", "open", "done"} => req[r].res = "ended"

(***************************************************************************)
(* C19.  After the client of a chat request disconnected, no further event *)
(* of the upstream stream is written to its response.                      *)
(* Fails: the streaming callback writes whatever the connection's state.   *)
(***************************************************************************)
C19_NoWriteAfterClose ==
    \A r \in Reqs : ~req[r].wroteAfterClose

\* The failures recorded so far, over all credentials.
TotalFailures(st) == SumOver([c \in Creds |-> st[c].failureCount], Creds)

\* In this step r's upstream POST failed and generateAssistantResponse
\* called itself again.
Retries(r) ==
    /\ req[r].pc = "fetch"
    /\ req'[r].pc \in {"fetch", "refresh"}
    /\ req'[r].retryCount # req[r].retryCount

C16_BoundedAttemptsAndTermination ==
    /\ [](\A r \in Reqs : req[r].kind = "chat" =>
              /\ req[r].retryCount <= maxRetries
              /\ req[r].acq <= maxRetries + 1)
    /\ \A r \in SchedReqs :
          (req[r].kind = "chat" /\ req[r].pc \in {"refresh", "fetch"})
              ~> (req[r].pc \in {"stream", "ended", "open", "done"})

\* A request used its whole budget: maxRetries + 1 attempts, then an error.
C16_Witness ==
    \E r \in Reqs :
        /\ req[r].kind = "chat" /\ req[r].pc = "ended"
        /\ req[r].acq = maxRetries + 1
        /\ req[r].lastFailure \in {0, 429, 500}

\* The successes recorded so far, over all credentials.
TotalSuccesses(st) == SumOver([c \in Creds |-> st[c].successCount], Creds)

\* r is in its streaming phase and takes a step.
StreamStep(r) == req[r].pc = "stream" /\ req'[r] # req[r]

\* The step ends r's streaming phase with one outcome recorded and the
\* credential released once.
EndsStreamReleased(r) ==
    LET c == Rt(req[r].tok)
    IN  /\ req'[r].pc \in {"ended", "open"}
        /\ req'[r].rel = req[r].rel + 1
        /\ activeRequests'[c] = activeRequests[c] - 1
        /\ stats'[c].totalRequests = stats[c].totalRequests + 1

(***************************************************************************)
(* C17 as stated.  Once the streaming phase started no further upstream    *)
(* attempt is made, and every failure while reading or transforming the    *)
(* stream records one failure on the credential, releases it once and is   *)
(* surfaced to the caller.                                                 *)
(* Does not hold: a line that fails to parse, or whose handling throws, is *)
(* caught inside the loop and skipped.                                     *)
(***************************************************************************)
C17_EveryStreamFailureSurfaced ==
    [][\A r \in Reqs :
          StreamStep(r) =>
              /\ req'[r].acq = req[r].acq
              /\ req'[r].pc \in {"stream", "ended", "open"}
              /\ (req'[r].skipped /\ ~req[r].skipped) \/ TotalFailures(stats') # TotalFailures(stats)
                    => /\ EndsStreamReleased(r)
                       /\ TotalFailures(stats') = TotalFailures(stats) + 1]_vars

(***************************************************************************)
(* What does hold of the streaming phase.  Once it started no further      *)
(* upstream attempt is made.  A failure of reading the body, or one raised *)
(* outside the per-line handler, records one failure on the credential,    *)
(* releases it once and is surfaced; a line that fails inside the per-line *)
(* handler is skipped: nothing is recorded or released and the stream goes *)
(* on.                                                                     *)
(***************************************************************************)
NoAttemptAfterStreamStart ==
    [][\A r \in Reqs :
          StreamStep(r) =>
              /\ req'[r].acq = req[r].acq
              /\ req'[r].pc \in {"stream", "ended", "open"}
              /\ req'[r].pc = "stream" =>
                    /\ stats' = stats
                    /\ activeRequests' = activeRequests
                    /\ req'[r].rel = req[r].rel
              /\ req'[r].pc # "stream" =>
                    /\ EndsStreamReleased(r)
                    /\ TotalFailures(stats') + TotalSuccesses(stats')
                          = TotalFailures(stats) + TotalSuccesses(stats) + 1
              /\ TotalFailures(stats') # TotalFailures(stats) =>
                    req'[r].pc # "stream" /\ req'[r].status \notin {0, 200}]_vars

\* One request goes on streaming after a skipped line while another was
\* ended by a stream failure after its only upstream attempt.
StreamSkippedAndFailed ==
    \E r \in Reqs : \E q \in Reqs \ {r} :
        /\ req[r].pc = "stream" /\ req[r].skipped
        /\ req[q].kind = "chat" /\ req[q].pc = "ended" /\ req[q].status = 500
        /\ req[q].lastFailure = -1 /\ req[q].acq = 1 /\ req[q].rel = 1

(***************************************************************************)
(* C20.  The slot of every admitted request is released in the end, at the *)
(* latest by the queue timeout, even if the response never finishes and    *)
(* the connection is never closed; so a waiting request is started in the  *)
(* end.                                                                    *)
(***************************************************************************)
C20_SlotEventuallyReleased ==
    \A r \in ResponseReqs :
        /\ (req[r].slot = "held") ~> (req[r].slot \in {"finish", "close", "timeout"})
        /\ (req[r].pc = "queued") ~> (req[r].pc # "queued")

\* The timeout freed the slot of a request whose response was left open and
\* whose connection is not closed, and the request that waited was started.
C20_Witness ==
    \E r \in Reqs : \E q \in Reqs \ {r} :
        /\ req[r].pc = "open" /\ ~req[r].closed /\ req[r].slot = "timeout"
        /\ req[q].slot = "held" /\ InFlight(q)

\* Nobody changed the file since a running job read it: the job's write
\* overwrites no update with its stale copy.
NoInterleaving ==
    /\ Len(io.running) <= 1
    /\ \A j \in 1..Len(io.running) : io.running[j].read = file

C23_NoSessionIdInFile == \A c \in Creds : file[c].sessionId = 0

\* A record was saved from its object in memory, which has a sessionId,
\* after a refresh and again after a disable, and a remark was written.
C23_Witness ==
    /\ gen > 1
    /\ file[1].remark # 0
    /\ \E c \in Creds : ~file[c].enable /\ file[c].access_token > NumCreds

(***************************************************************************)
(* C24.  Once a record of the credential file has a projectId, no load,    *)
(* save, remark update or disable changes or removes it, and a projectId   *)
(* is generated only for a record that has none: the projectId a record    *)
(* had when the process was started is the one it keeps.                   *)
(***************************************************************************)
C24_ProjectIdStable ==
    /\ [](\A c \in Creds : io.raw[c] # 0 => file[c].projectId = io.raw[c])
    /\ [][\A c \in Creds : file[c].projectId # 0 => file'[c].projectId = file[c].projectId]_vars

\* One record came with a projectId and one got its own at the first load;
\* both kept them through a refresh save, a disable with its reload, and a
\* remark update.
C24_Witness ==
    /\ gen > 1
    /\ file[1].remark # 0
    /\ \E c \in Creds : \E d \in Creds \ {c} :
          /\ io.raw[c] # 0 /\ file[c].projectId = io.raw[c]
          /\ io.raw[d] = 0 /\ file[d].projectId = NewProjectId(d, 1)
          /\ \E e \in {c, d} : ~file[e].enable /\ file[e].access_token > NumCreds

\* In this step the OAuth endpoint answered r's refresh with a 2xx.
RefreshSucceeds(r) ==
    /\ req[r].pc = "refresh"
    /\ req'[r].pc # "refresh"
    /\ nextAccess' = nextAccess + 1

\* Record rec carries the access token issued at time t.
HasAccess(rec, access, t) ==
    rec.access_token = access /\ rec.expires_in = ExpiresIn /\ rec.timestamp = t

(***************************************************************************)
(* C22.  After a refresh returned 2xx for a credential of the enabled      *)
(* list, the new access_token, expires_in and timestamp are in the         *)
(* credential's object of the enabled list and, the save done, in its      *)
(* record of the file, and its refreshCount grew by one; also when the     *)
(* list was reloaded while the refresh was in flight.                      *)
(* Fails: after a reload the refreshed object is no longer the one in the  *)
(* list, and saveToFile writes the objects of the list.                    *)
(***************************************************************************)
C22_RefreshVisible ==
    [][\A r \in Reqs :
          RefreshSucceeds(r) /\ IndexOf(tokens, Rt(req[r].tok)) # 0 =>
              LET c == Rt(req[r].tok)
              IN  /\ stats'[c].refreshCount = stats[c].refreshCount + 1
                  /\ IndexOf(tokens', c) # 0
                  /\ HasAccess(heap'[tokens'[IndexOf(tokens', c)]], nextAccess, now)
                  /\ HasAccess(file'[c], nextAccess, now)]_vars

(***************************************************************************)
(* C29.  When the credential file is missing or does not parse, the        *)
(* enabled list is empty and every getToken call fails with the 503 of     *)
(* "no credentials": no request ever holds a credential, the chat route    *)
(* answers 503 (the models route turns every error into 500), and no       *)
(* active count or stats entry changes.                                    *)
(***************************************************************************)
C29_NoCredentials ==
    ~io.ok =>
        /\ tokens = <<>>
        /\ \A r \in Reqs :
              /\ ~InFlight(r)
              /\ req[r].acq = 0
              /\ req[r].pc = "ended" =>
                    req[r].status = IF req[r].kind = "chat" THEN 503 ELSE 500
        /\ activeRequests = [c \in Creds |-> 0]
        /\ stats = [c \in Creds |-> initStats]

\* Without a file, a chat request was started from the queue and answered
\* 503, and a models request was answered 500.
C29_Witness ==
    /\ ~io.ok
    /\ \E r \in Reqs : \E q \in Reqs \ {r} :
          /\ req[r].kind = "chat" /\ req[r].pc = "ended" /\ req[r].status = 503
          /\ req[r].slot = "held" /\ waiting = <<>> /\ pending = 1
          /\ req[q].kind = "chat" /\ req[q].pc = "done"
          /\ \E m \in Reqs : req[m].kind = "models" /\ req[m].status = 500

\* A text with its tags removed, character by character, each with the type
\* it is to be emitted as: "thinking" between <think> and </think>, "text"
\* elsewhere.
RECURSIVE Untagged(_, _)
Untagged(s, inside) ==
    IF s = <<>> THEN <<>>
    ELSE IF StartsWith(s, IF inside THEN ThinkClose ELSE ThinkOpen)
    THEN Untagged(From(s, Len(IF inside THEN ThinkClose ELSE ThinkOpen) + 1), ~inside)
    ELSE <<<<IF inside THEN "thinking" ELSE "text", Head(s)>>>> \o Untagged(Tail(s), inside)

\* The contents of a sequence of events, character by character with the
\* type of the event.
RECURSIVE Typed(_)
Typed(events) ==
    IF events = <<>> THEN <<>>
    ELSE [k \in 1..Len(Head(events)[2]) |-> <<Head(events)[1], Head(events)[2][k]>>]
         \o Typed(Tail(events))

(***************************************************************************)
(* C25.  For a text with balanced <think> and </think>, cut into           *)
(* successive text parts in any way, the contents of the events emitted,   *)
(* concatenated in emission order, are the text with its tags removed:     *)
(* what is between the tags is emitted as thinking, the rest as text, and  *)
(* at any moment what has been emitted is the beginning of it.             *)
(***************************************************************************)
C25_SplitterRoundTrip ==
    sse.pc # "none" =>
        LET emitted == Typed(sse.events)
            whole == Untagged(sse.text, FALSE)
        IN  /\ Len(emitted) <= Len(whole)
            /\ emitted = SubSeq(whole, 1, Len(emitted))
            /\ sse.pc = "done" => emitted = whole

\* The parts "..<thi" and "nk>..</think>..", text around and inside longer
\* than what is held back: text, thinking and text were emitted.
C25_Witness ==
    /\ sse.pc = "done"
    /\ Len(sse.text) > 3 * LongRun
    /\ \E k \in 1..(Len(sse.body) - 11) : SubSeq(sse.body, k, k + 11) =
            <<"<", "t", "h", "i", NL>> \o DataPrefix \o <<"n">>
    /\ \E i \in 1..Len(sse.events) : \E j \in 1..Len(sse.events) :
          /\ i < j
          /\ sse.events[i][1] = "thinking"
          /\ sse.events[j][1] = "text"
          /\ sse.events[1][1] = "text"

\* The events of a body read in one piece, every line of it handled: the
\* text parts of its "data: " lines through the same splitter.
EventsOfLines(body) ==
    flush(processLines([textBuffer |-> <<>>, thinkingMode |-> FALSE, events |-> <<>>,
                        toolCalls |-> <<>>],
                       SelectSeq(Split(decode(body)),
                                 LAMBDA line : StartsWith(line, DataPrefix)))).events

(***************************************************************************)
(* C26.  The events emitted for a body do not depend on how it is cut into *)
(* network chunks: every "data: " line of the body is parsed and processed *)
(* exactly once, the last line of the body included.                       *)
(* Fails: each chunk is decoded on its own, so a character whose bytes are *)
(* in two chunks is lost; and what is left in lineBuffer when the body     *)
(* ends is not processed.                                                  *)
(***************************************************************************)
C26_EventsIndependentOfChunks ==
    sse.pc = "done" /\ sse.text = <<>> => sse.events = EventsOfLines(sse.body)

\* In this step a selection loop of r's getToken selected nothing.
Starves(r) == req[r].starved = <<>> /\ req'[r].starved # <<>>

\* The counts after r gave back the credential it held, if it held one: what
\* a getToken of r that adds nothing leaves.
CountsWithout(r) ==
    IF req[r].tok # NoTok THEN releaseToken(activeRequests, Rt(req[r].tok)) ELSE activeRequests

\* Every credential of the list that is not in tried is cooling at t.
AllUntriedCooling(tk, tried, st, t) ==
    /\ Untried(tk, tried) # {}
    /\ \A k \in Untried(tk, tried) : IsCooling(st, Rt(tk[k]), t)

\* ceil(shortest remaining cooldown of the untried credentials / 1000)
SecondsToFirstReady(tk, tried, st, t) ==
    LET left == {st[Rt(tk[k])].cooldownUntil - t : k \in Untried(tk, tried)}
        least == CHOOSE x \in left : \A y \in left : x <= y
    IN  CHOOSE s \in 0..least : 1000 * s >= least /\ 1000 * (s - 1) < least

(***************************************************************************)
(* C27.  When every untried credential is cooling, getToken fails with     *)
(* status 429 and retryAfter = ceil(shortest remaining cooldown / 1000)    *)
(* seconds and adds nothing to any active count, and the chat route        *)
(* answers 429, type rate_limit_error, with that value in Retry-After.     *)
(***************************************************************************)
C27_AllCoolingAnswered429 ==
    [][\A r \in Reqs :
          Starves(r) /\ AllUntriedCooling(tokens', req'[r].starved[1], stats', now')
          => LET e == SelectError(tokens', req'[r].starved[1], activeRequests', stats', now')
                 secs == SecondsToFirstReady(tokens', req'[r].starved[1], stats', now')
             IN  /\ e.statusCode = 429 /\ e.retryAfter = secs
                 /\ req'[r].tok = NoTok
                 /\ activeRequests' = CountsWithout(r)
                 /\ req'[r].kind = "chat" =>
                       /\ req'[r].pc = "ended"
                       /\ req'[r].status = 429
                       /\ ErrorType(req'[r].status) = "rate_limit_error"
                       /\ req'[r].retryAfterHdr = secs]_vars

\* Both credentials are cooling, for different times, one request holds a
\* credential, and a chat request was answered 429 with the shorter time.
C27_Witness ==
    \E r \in Reqs, q \in Reqs :
        /\ req[r].kind = "chat" /\ req[r].pc = "ended" /\ req[r].starved = <<{}>>
        /\ req[r].status = 429
        /\ AllUntriedCooling(tokens, {}, stats, now)
        /\ stats[1].cooldownUntil # stats[2].cooldownUntil
        /\ req[r].retryAfterHdr = SecondsToFirstReady(tokens, {}, stats, now)
        /\ InFlight(q) /\ activeRequests[Rt(req[q].tok)] > 0

\* triedTokens of the selection loop that runs for r in this step: the loop
\* goes on after a failed refresh with the credentials that failed so far,
\* and starts with none otherwise.
TriedNow(r) ==
    IF req[r].pc = "refresh" THEN req[r].tried \cup {Rt(req[r].tok)} ELSE {}

(***************************************************************************)
(* C30.  When getToken finds at least one candidate (untried, not cooling, *)
(* active count below the cap) it selects one: a candidate whose active    *)
(* count is the smallest among all candidates and, among the candidates    *)
(* with that count, the one that comes first in the enabled list.          *)
(***************************************************************************)
C30_LeastLoadedFirst ==
    [][\A r \in Reqs :
          LET act == CountsWithout(r)
              cand == Candidates(tokens, TriedNow(r), act, stats', now)
          IN  /\ Starves(r) => cand = {}
              /\ Selects(r) =>
                    \E k \in cand :
                       /\ tokens[k] = req'[r].tok
                       /\ \A j \in cand :
                             \/ act[Rt(tokens[k])] < act[Rt(tokens[j])]
                             \/ act[Rt(tokens[k])] = act[Rt(tokens[j])] /\ k <= j]_vars

\* Nothing failed and nothing was released: the first request found both
\* credentials with no request and took the first, the second one found
\* the first credential with one request and took the second.
C30_Witness ==
    \E r \in Reqs, q \in Reqs :
        /\ req[q].pc = "fetch" /\ Rt(req[q].tok) = 1
        /\ req[r].pc = "fetch" /\ Rt(req[r].tok) = 2
        /\ activeRequests = [c \in Creds |-> 1]
        /\ \A p \in Reqs : req[p].rel = 0 /\ (p \notin {q, r} => req[p].acq = 0)
        /\ \A c \in Creds : stats[c].failureCount = 0 /\ stats[c].cooldownUntil = 0

\* In this step r's last attempt was answered 429: the retry budget is used
\* up and the error leaves generateAssistantResponse.
ExhaustedOn429(r) ==
    /\ req[r].pc = "fetch"
    /\ req[r].retryCount >= maxRetries
    /\ req'[r].pc = "ended"
    /\ req'[r].lastFailure = 429
    /\ stats'[Rt(req[r].tok)].failureCount = stats[Rt(req[r].tok)].failureCount + 1

(***************************************************************************)
(* C28.  A request that ends because the retry budget is exhausted on      *)
(* upstream 429 responses is answered with HTTP 429, type rate_limit_error *)
(* and a Retry-After header, as a request that fails because every         *)
(* credential is cooling.                                                  *)
(* Fails: the error thrown after the last 429 has no retryAfter, so the    *)
(* route sets no Retry-After header.                                       *)
(***************************************************************************)
C28_ExhaustedHasRetryAfter ==
    [][\A r \in Reqs :
          ExhaustedOn429(r) =>
             /\ req'[r].status = 429
             /\ ErrorType(req'[r].status) = "rate_limit_error"
             /\ req'[r].retryAfterHdr > 0]_vars

\* What does hold of it: status and type, and no Retry-After header.
ExhaustedWithoutRetryAfter ==
    [][\A r \in Reqs :
          ExhaustedOn429(r) =>
             /\ req'[r].status = 429
             /\ ErrorType(req'[r].status) = "rate_limit_error"
             /\ req'[r].retryAfterHdr = 0]_vars

\* The loop counts a credential as overloaded when it is not cooling and
\* its active count is at the cap.
CountedOverloaded(act, st, c, t) ==
    ~IsCooling(st, c, t) /\ act[c] >= cfg.perTokenConcurrency

(***************************************************************************)
(* C31.  When getToken finds no candidate and every untried credential is  *)
(* cooling or at the concurrency cap, at least one of them counted as at   *)
(* the cap (not cooling), it fails with the 503 "concurrency cap" error    *)
(* and adds nothing to any active count; the chat route answers 503.       *)
(***************************************************************************)
C31_CapReachedAnswered503 ==
    [][\A r \in Reqs :
          LET tried == req'[r].starved[1]
              untried == {Rt(tokens'[k]) : k \in Untried(tokens', tried)}
          IN  /\ Starves(r)
              /\ \A c \in untried : \/ IsCooling(stats', c, now')
                                     \/ CountedOverloaded(activeRequests', stats', c, now')
              /\ \E c \in untried : CountedOverloaded(activeRequests', stats', c, now')
              => LET e == SelectError(tokens', tried, activeRequests', stats', now')
                 IN  /\ e.statusCode = 503 /\ e.why = "concurrency_cap"
                     /\ req'[r].tok = NoTok
                     /\ activeRequests' = CountsWithout(r)
                     /\ req'[r].kind = "chat" =>
                           /\ req'[r].pc = "ended"
                           /\ req'[r].status = 503
                           /\ req'[r].retryAfterHdr = 0]_vars

\* One credential is cooling, the other one is at its cap under requests in
\* flight, and a chat request found no candidate and was answered 503.
C31_Witness ==
    \E r \in Reqs, c \in Creds, d \in Creds :
        /\ req[r].kind = "chat" /\ req[r].pc = "ended" /\ req[r].starved = <<{}>>
        /\ req[r].status = 503
        /\ EnabledInMemory = {c, d}
        /\ IsCooling(stats, c, now)
        /\ CountedOverloaded(activeRequests, stats, d, now)
        /\ Cardinality({q \in Reqs : InFlight(q) /\ Rt(req[q].tok) = d}) = cfg.perTokenConcurrency

\* In this step the refresh r's getToken awaited has failed: r was in the
\* refresh and the step is not the return of the refreshed token.
RefreshFailed(r) ==
    /\ req[r].pc = "refresh"
    /\ req'[r] # req[r]
    /\ ~(req'[r].pc \in {"fetch", "mfetch"} /\ req'[r].tok = req[r].tok)

(***************************************************************************)
(* C32.  When the refresh of a selected credential fails inside getToken,  *)
(* the increment of its active count made at the selection is taken back   *)
(* (the count was above 0 and goes down by one, no other count changes but *)
(* by the next selection), exactly one failure is recorded for it, and the *)
(* credential is not selected again during the same getToken call.         *)
(***************************************************************************)
C32_RefreshFailureRolledBack ==
    /\ [](\A r \in Reqs : req[r].pc = "refresh" =>
              /\ activeRequests[Rt(req[r].tok)] > 0
              /\ Rt(req[r].tok) \notin req[r].tried)
    /\ [][\A r \in Reqs :
             RefreshFailed(r) =>
                LET c == Rt(req[r].tok)
                    back == [activeRequests EXCEPT ![c] = @ - 1]
                IN  /\ activeRequests' = IF req'[r].tok # NoTok
                                         THEN [back EXCEPT ![Rt(req'[r].tok)] = @ + 1]
                                         ELSE back
                    /\ stats'[c].failureCount = stats[c].failureCount + 1
                    /\ stats'[c].totalRequests = stats[c].totalRequests + 1
                    /\ stats'[c].successCount = stats[c].successCount
                    /\ \A d \in Creds \ {c} : stats'[d] = stats[d]
                    /\ req'[r].tok # NoTok => Rt(req'[r].tok) \notin req[r].tried \cup {c}
                    /\ req'[r].pc = "refresh" => req'[r].tried = req[r].tried \cup {c}]_vars

\* The refresh of the first credential failed for r: one failure is
\* recorded for it, its count is back to the one request still on it, and
\* r is in the refresh of the second credential.
C32_Witness ==
    \E r \in Reqs, q \in Reqs :
        /\ req[r].pc = "refresh" /\ Rt(req[r].tok) = 2 /\ req[r].tried = {1}
        /\ req[q].pc = "fetch" /\ Rt(req[q].tok) = 1
        /\ activeRequests = <<1, 1>>
        /\ stats[1].failureCount = 1 /\ stats[1].totalRequests = 1

\* In this step getToken returned a credential to r.
Returns(r) == req'[r].acq = req[r].acq + 1

\* timestamp and expires_in are present and t is before the expiry less the
\* skew of five minutes.
FreshAt(rec, t) ==
    /\ rec.timestamp # 0
    /\ rec.expires_in # 0
    /\ t < rec.timestamp + rec.expires_in * 1000 - ExpirySkewMs

(***************************************************************************)
(* C33.  A credential returned by getToken either was not expired at the   *)
(* time of its selection (now < timestamp + expires_in*1000 - 300000, with *)
(* timestamp and expires_in present) or has just been refreshed            *)
(* successfully during this call; a credential whose refresh failed is     *)
(* not returned.                                                           *)
(***************************************************************************)
C33_ReturnedFreshOrRefreshed ==
    [][\A r \in Reqs :
          /\ Returns(r) =>
                LET o == req'[r].tok
                IN  IF req[r].pc = "refresh" /\ req[r].tok = o
                    THEN /\ stats'[Rt(o)].refreshCount = stats[Rt(o)].refreshCount + 1
                         /\ heap'[o].access_token # heap[o].access_token
                         /\ heap'[o].timestamp = now
                    ELSE /\ o \in {tokens[k] : k \in 1..Len(tokens)}
                         /\ FreshAt(heap[o], now)
                         /\ heap'[o] = heap[o]
          /\ RefreshFailed(r) => Rt(req'[r].tok) # Rt(req[r].tok)]_vars

\* Time has passed: the access token of the first credential, valid at the
\* start, has expired; r, which arrived after that, was given the first
\* credential after a refresh, and q the second credential, still valid,
\* without one.
C33_Witness ==
    \E r \in Reqs, q \in Reqs :
        /\ now > StartNow
        /\ req[r].pc = "fetch" /\ Rt(req[r].tok) = 1
        /\ req[q].pc = "fetch" /\ Rt(req[q].tok) = 2
        /\ heap[req[r].tok].expires_in = ExpiresIn /\ heap[req[r].tok].timestamp = now
        /\ stats[1].refreshCount = 1
        /\ stats[2] = initStats /\ FreshAt(heap[req[q].tok], now)

\* The entry of credential c after a 429 with retry-after h is recorded on
\* it now.
After429(c, h) == recordFailure(stats, c, 429, retryAfterOf(h), now)[c]

(***************************************************************************)
(* C34.  Recording a 429 failure on a credential sets its status to        *)
(* rate_limited, increases consecutive429Count by one, and sets            *)
(* cooldownUntil to now + retryAfter when a retry-after value in           *)
(* milliseconds was provided and to now + 2000 otherwise.                  *)
(* Fails: a retry-after of 0 is provided and is taken for none.            *)
(***************************************************************************)
C34_Recorded429SetsCooldown ==
    \A c \in Creds, h \in RetryAfterInputs :
        /\ After429(c, h).status = "rate_limited"
        /\ After429(c, h).consecutive429Count = stats[c].consecutive429Count + 1
        /\ After429(c, h).cooldownUntil = IF h # <<>> THEN now + h[1] ELSE now + FixedCooldownMs

\* What does hold: the retry-after is used when it is above 0, the fixed
\* delay when it is 0 or there is none.
CooldownOfPositiveRetryAfter ==
    \A c \in Creds, h \in RetryAfterInputs :
        /\ After429(c, h).status = "rate_limited"
        /\ After429(c, h).consecutive429Count = stats[c].consecutive429Count + 1
        /\ After429(c, h).cooldownUntil = IF h # <<>> /\ h[1] > 0 THEN now + h[1]
                                           ELSE now + FixedCooldownMs
        /\ After429(c, h).totalRequests = stats[c].totalRequests + 1
        /\ After429(c, h).failureCount = stats[c].failureCount + 1

\* The payloads of the "data: " lines of a body whose lines are complete.
PayloadsOf(body) ==
    LET lines == SelectSeq(Split(decode(body)), LAMBDA line : StartsWith(line, DataPrefix))
    IN  [k \in 1..Len(lines) |-> From(lines[k], Len(DataPrefix) + 1)]

\* The characters of parts without tags in the order they were received,
\* each with the type of its part.
RECURSIVE InOrder(_)
InOrder(payloads) ==
    IF payloads = <<>> THEN <<>>
    ELSE LET p == Head(payloads)
             thought == StartsWith(p, ThoughtMark)
             text == IF thought THEN Tail(p) ELSE p
         IN  [k \in 1..Len(text) |-> <<IF thought THEN "thinking" ELSE "text", text[k]>>]
             \o InOrder(Tail(payloads))

(***************************************************************************)
(* C35.  A part with thought === true has its thinking event emitted only  *)
(* after all text received in earlier parts has been emitted: text and     *)
(* thinking come out in the order in which the parts were received.        *)
(* Fails: processBuffer keeps the last 6 characters of the text when it    *)
(* finds no tag, and they are emitted after the thinking event.            *)
(***************************************************************************)
C35_TextBeforeThought ==
    sse.pc = "done" => Typed(sse.events) = InOrder(PayloadsOf(sse.body))

\* What does hold: the text characters come out in their order and the
\* thinking characters in theirs, none lost.
OrderWithinEachType ==
    sse.pc = "done" =>
        \A type \in {"text", "thinking"} :
            SelectSeq(Typed(sse.events), LAMBDA e : e[1] = type)
            = SelectSeq(InOrder(PayloadsOf(sse.body)), LAMBDA e : e[1] = type)

\* The ids of the functionCall parts of a sequence of frames, in the order
\* they were received.
RECURSIVE CallsOf(_)
CallsOf(payloads) ==
    IF payloads = <<>> THEN <<>>
    ELSE (IF StartsWith(Head(payloads), CallMark)
          THEN <<SelectSeq(Tail(Head(payloads)), LAMBDA ch : ch # FinishMark)>>
          ELSE <<>>) \o CallsOf(Tail(payloads))

\* The calls of the tool_calls events emitted, in emission order.
RECURSIVE EmittedCalls(_)
EmittedCalls(events) ==
    IF events = <<>> THEN <<>>
    ELSE (IF Head(events)[1] = "tool_calls" THEN Head(events)[2] ELSE <<>>)
         \o EmittedCalls(Tail(events))

\* The frames up to the last one with a finishReason.
UpToLastFinish(payloads) ==
    LET finishes == {k \in 1..Len(payloads) :
                        payloads[k] # <<>> /\ payloads[k][Len(payloads[k])] = FinishMark}
    IN  IF finishes = {} THEN <<>>
        ELSE SubSeq(payloads, 1, CHOOSE k \in finishes : \A j \in finishes : j <= k)

(***************************************************************************)
(* C36.  Every functionCall part received on the upstream stream is        *)
(* emitted in exactly one tool_calls event: when the stream has ended the  *)
(* calls of the tool_calls events are the calls received, each once and in *)
(* order, and no tool_calls event is empty.                                *)
(* Fails: the calls collected after the last frame with a finishReason are *)
(* dropped when the stream ends.                                           *)
(***************************************************************************)
C36_EveryCallEmittedOnce ==
    sse.pc = "done" =>
        /\ EmittedCalls(sse.events) = CallsOf(PayloadsOf(sse.body))
        /\ \A k \in 1..Len(sse.events) :
              sse.events[k][1] = "tool_calls" => sse.events[k][2] # <<>>

\* What does hold: the calls received up to the last finishReason are
\* emitted once each, and never one that was not received.
CallsUpToLastFinishEmittedOnce ==
    /\ sse.pc = "done" =>
          EmittedCalls(sse.events) = CallsOf(UpToLastFinish(PayloadsOf(sse.body)))
    /\ \A k \in 1..Len(sse.events) :
          sse.events[k][1] = "tool_calls" => sse.events[k][2] # <<>>

(***************************************************************************)
(* C37.  No credential's active count is ever negative, after any sequence *)
(* of selections, releases and rollbacks: releaseToken and the rollback    *)
(* decrement only a count above 0.                                         *)
(***************************************************************************)
C37_ActiveNeverNegative ==
    \A c \in Creds : activeRequests[c] >= 0

\* A caller has given back more than was reserved for it, and no count is
\* above 0.
C37_Witness ==
    /\ \E r \in Reqs : req[r].rel > req[r].acq /\ req[r].acq > 0 /\ req[r].tried # {}
    /\ \A c \in Creds : activeRequests[c] = 0

\* The requests that hold, or are refreshing, a token object of credential c.
Holders(c) == {r \in Reqs : InFlight(r) /\ Rt(req[r].tok) = c}

(***************************************************************************)
(* C38.  A chat-completion request holds at most one credential at any     *)
(* time: every request in flight accounts for one unit of its credential's *)
(* active count, and a retry gives back the unit of the failed attempt's   *)
(* credential before it takes one of the credential it goes on with.       *)
(***************************************************************************)
C38_OneCredentialPerRequest ==
    /\ [](\A c \in Creds : activeRequests[c] >= Cardinality(Holders(c)))
    /\ [][\A r \in Reqs :
            Retries(r) =>
               activeRequests' = [activeRequests EXCEPT ![Rt(req[r].tok)] = @ - 1,
                                                        ![Rt(req'[r].tok)] = @ + 1]]_vars

\* A request retried onto the second credential, and the first credential,
\* which its failed attempt used, has no active request left.
C38_Witness ==
    \E r \in Reqs :
        /\ req[r].pc = "fetch" /\ req[r].retryCount > 0
        /\ Rt(req[r].tok) = 2 /\ 1 \in req[r].used
        /\ activeRequests[1] = 0 /\ activeRequests[2] = 1

\* In this step an attempt of r with the credential of its token finished:
\* the upstream POST of generateAssistantResponse failed or its stream
\* ended, or the refresh inside getToken failed.  (getAvailableModels
\* calls neither recordSuccess nor recordFailure; its POST is not counted.)
AttemptEnds(r) ==
    \/ /\ req[r].pc = "fetch"
       /\ req'[r].pc \notin {"fetch", "stream"} \/ req'[r].retryCount # req[r].retryCount
    \/ req[r].pc = "stream" /\ req'[r].pc # "stream"
    \/ RefreshFailed(r)

\* The number of attempts made with credential c that finish in this step.
Finishing(c) == Cardinality({r \in Reqs : AttemptEnds(r) /\ Rt(req[r].tok) = c})

(***************************************************************************)
(* C39.  Each upstream attempt made with a selected credential records     *)
(* exactly one outcome on that credential's stats: the step that           *)
(* finishes it adds one to totalRequests and one to either successCount or *)
(* failureCount of its credential, and nothing else changes these counts,  *)
(* so totalRequests equals the number of finished attempts.                *)
(***************************************************************************)
C39_OneOutcomePerAttempt ==
    [][\A c \in Creds :
          /\ stats'[c].totalRequests = stats[c].totalRequests + Finishing(c)
          /\ stats'[c].successCount + stats'[c].failureCount
                = stats[c].successCount + stats[c].failureCount + Finishing(c)]_vars

\* The same without the attempts whose error body is lost: every attempt
\* that takes one of the branches of the code records one outcome.
OneOutcomePerBranch ==
    [][\A c \in Creds : stats'[c].totalRequests = stats[c].totalRequests + Finishing(c)]_vars

\* No request holds or is acquiring a credential and no cooldown is running.
Quiet ==
    /\ \A r \in Reqs : ~InFlight(r)
    /\ \A c \in Creds : ~IsCooling(stats, c, now)

(***************************************************************************)
(* C40.  No enabled credential becomes permanently unselectable: once all  *)
(* in-flight requests have ended and all cooldowns have elapsed, a new     *)
(* getToken call with at least one enabled credential selects a            *)
(* credential, whatever the earlier requests ended with.                   *)
(***************************************************************************)
C40_NeverStuck ==
    Quiet /\ Len(tokens) > 0 =>
       SelectedIndex(tokens, {}, activeRequests, stats, now) # 0

====
